---- MODULE Spec2Model ----
(***************************************************************************)
(* Model of the receipt extraction pipeline of Projeto-extractor-ocr:      *)
(* OCR text correction, layout detection, per-layout field extraction,     *)
(* currency parsing/formatting and the batch loop of main.py.              *)
(*                                                                         *)
(* Texts are TLA+ strings; Python's str and re operations are modelled     *)
(* character by character (Ch, Contains, Replace, Search, ...).  Case      *)
(* mapping covers the ASCII letters: the texts of the model carry accented *)
(* letters in lower case only.                                             *)
(***************************************************************************)
EXTENDS Integers, Sequences, FiniteSets, Bags, TLC

(***************************************************************************)
(* Bounds of the model.                                                    *)
(***************************************************************************)
\* longest batch (number of image files found in the input directory)
MaxDocs == 3
\* most fragments (lines) joined into one OCR text in the per-document runs
MaxFrags == 2
\* longest currency string drawn for the currency parser
MaxCurLen == 5
\* most digits of an amount (in cents) drawn for the currency round trip
MaxAmountDigits == 9

\* most white-space characters around a string drawn for a validator
MaxPad == 1

(***************************************************************************)
(* Python str operations.                                                  *)
(***************************************************************************)
\* s[i-1] of Python (1-based here); "" outside the string
Ch(s, i) == IF i >= 1 /\ i <= Len(s) THEN SubSeq(s, i, i) ELSE ""

\* s[i-1:] starts with p
StartsAt(s, p, i) == i + Len(p) - 1 <= Len(s) /\ SubSeq(s, i, i + Len(p) - 1) = p

\* p in s
Contains(s, p) == \E i \in 1..(Len(s) - Len(p) + 1) : StartsAt(s, p, i)

Whitespace == {" ", "\n", "\t"}
Digits == {"0", "1", "2", "3", "4", "5", "6", "7", "8", "9"}
UpperSet ==
    {"A", "B", "C", "D", "E", "F", "G", "H", "I", "J", "K", "L", "M",
     "N", "O", "P", "Q", "R", "S", "T", "U", "V", "W", "X", "Y", "Z"}
LowerSet ==
    {"a", "b", "c", "d", "e", "f", "g", "h", "i", "j", "k", "l", "m",
     "n", "o", "p", "q", "r", "s", "t", "u", "v", "w", "x", "y", "z"}
Letters == UpperSet \cup LowerSet
\* the lower-case letter of each upper-case one, and the other way round
ToLower ==
    ("A" :> "a") @@ ("B" :> "b") @@ ("C" :> "c") @@ ("D" :> "d") @@ ("E" :> "e") @@ ("F" :> "f")
    @@ ("G" :> "g") @@ ("H" :> "h") @@ ("I" :> "i") @@ ("J" :> "j") @@ ("K" :> "k") @@ ("L" :> "l")
    @@ ("M" :> "m") @@ ("N" :> "n") @@ ("O" :> "o") @@ ("P" :> "p") @@ ("Q" :> "q") @@ ("R" :> "r")
    @@ ("S" :> "s") @@ ("T" :> "t") @@ ("U" :> "u") @@ ("V" :> "v") @@ ("W" :> "w") @@ ("X" :> "x")
    @@ ("Y" :> "y") @@ ("Z" :> "z")
ToUpper ==
    ("a" :> "A") @@ ("b" :> "B") @@ ("c" :> "C") @@ ("d" :> "D") @@ ("e" :> "E") @@ ("f" :> "F")
    @@ ("g" :> "G") @@ ("h" :> "H") @@ ("i" :> "I") @@ ("j" :> "J") @@ ("k" :> "K") @@ ("l" :> "L")
    @@ ("m" :> "M") @@ ("n" :> "N") @@ ("o" :> "O") @@ ("p" :> "P") @@ ("q" :> "Q") @@ ("r" :> "R")
    @@ ("s" :> "S") @@ ("t" :> "T") @@ ("u" :> "U") @@ ("v" :> "V") @@ ("w" :> "W") @@ ("x" :> "X")
    @@ ("y" :> "Y") @@ ("z" :> "Z")

\* the accented letters of Portuguese, and their lower and upper case
UpperAcentos ==
    {"Á", "À", "Â", "Ã", "É", "È", "Ê", "Í", "Ì", "Î", "Ó", "Ò", "Ô", "Õ", "Ú", "Ù", "Û", "Ç"}
LowerAcentos ==
    {"á", "à", "â", "ã", "é", "è", "ê", "í", "ì", "î", "ó", "ò", "ô", "õ", "ú", "ù", "û", "ç"}
ToLowerAcento ==
    ("Á" :> "á") @@ ("À" :> "à") @@ ("Â" :> "â") @@ ("Ã" :> "ã") @@ ("É" :> "é") @@ ("È" :> "è")
    @@ ("Ê" :> "ê") @@ ("Í" :> "í") @@ ("Ì" :> "ì") @@ ("Î" :> "î") @@ ("Ó" :> "ó") @@ ("Ò" :> "ò")
    @@ ("Ô" :> "ô") @@ ("Õ" :> "õ") @@ ("Ú" :> "ú") @@ ("Ù" :> "ù") @@ ("Û" :> "û") @@ ("Ç" :> "ç")
ToUpperAcento ==
    ("á" :> "Á") @@ ("à" :> "À") @@ ("â" :> "Â") @@ ("ã" :> "Ã") @@ ("é" :> "É") @@ ("è" :> "È")
    @@ ("ê" :> "Ê") @@ ("í" :> "Í") @@ ("ì" :> "Ì") @@ ("î" :> "Î") @@ ("ó" :> "Ó") @@ ("ò" :> "Ò")
    @@ ("ô" :> "Ô") @@ ("õ" :> "Õ") @@ ("ú" :> "Ú") @@ ("ù" :> "Ù") @@ ("û" :> "Û") @@ ("ç" :> "Ç")

\* str.lower() of one character
LowerCh(c) ==
    IF c \in UpperSet THEN ToLower[c]
    ELSE IF c \in UpperAcentos THEN ToLowerAcento[c]
    ELSE c

RECURSIVE Lower(_)
\* str.lower(): character by character
Lower(s) ==
    IF Len(s) <= 1 THEN LowerCh(s)
    ELSE Lower(SubSeq(s, 1, Len(s) \div 2)) \o Lower(SubSeq(s, Len(s) \div 2 + 1, Len(s)))

\* s.find(p) + 1 when p occurs in s: the position of its first occurrence
Find(s, p) ==
    CHOOSE i \in 1..(Len(s) - Len(p) + 1) :
        StartsAt(s, p, i) /\ \A j \in 1..(i - 1) : ~StartsAt(s, p, j)

RECURSIVE Replace(_, _, _)
\* s with new for the occurrence of old at position i, and for those after it
ReplaceAt(s, old, new, i) ==
    SubSeq(s, 1, i - 1) \o new \o Replace(SubSeq(s, i + Len(old), Len(s)), old, new)

\* str.replace(old, new) for a non-empty old: every occurrence, left to right
Replace(s, old, new) ==
    IF Contains(s, old) THEN ReplaceAt(s, old, new, Find(s, old)) ELSE s

RECURSIVE LStripFrom(_, _)
LStripFrom(s, i) ==
    IF i <= Len(s) /\ Ch(s, i) \in Whitespace THEN LStripFrom(s, i + 1) ELSE i

RECURSIVE RStripFrom(_, _)
RStripFrom(s, j) ==
    IF j >= 1 /\ Ch(s, j) \in Whitespace THEN RStripFrom(s, j - 1) ELSE j

\* str.strip()
Strip(s) == SubSeq(s, LStripFrom(s, 1), RStripFrom(s, Len(s)))

\* str.upper() of one character
UpperCh(c) ==
    IF c \in LowerSet THEN ToUpper[c]
    ELSE IF c \in LowerAcentos THEN ToUpperAcento[c]
    ELSE c

(***************************************************************************)
(* Python re: a backtracking matcher over pattern trees.  M(r, s, i, ic)   *)
(* is the sequence of ways r matches s from position i, in the order the   *)
(* engine tries them (the first is the one re.search/re.match reports);    *)
(* each way is [e |-> position after the match, g |-> span of group 1],    *)
(* group 1 being the first group of the pattern that took part.            *)
(* ic is re.IGNORECASE.                                                    *)
(***************************************************************************)
Inf == -1
Lit(p) == [t |-> "lit", p |-> p]
Cls(c) == [t |-> "cls", c |-> c]
NotCls(c) == [t |-> "ncls", c |-> c]
Eos == [t |-> "eos"]
Grp(r) == [t |-> "grp", r |-> r]
Cat(rs) == [t |-> "cat", rs |-> rs]
Alt(rs) == [t |-> "alt", rs |-> rs]
Rep(r, lo, hi) == [t |-> "rep", r |-> r, lo |-> lo, hi |-> hi, lazy |-> FALSE]
RepLazy(r, lo, hi) == [t |-> "rep", r |-> r, lo |-> lo, hi |-> hi, lazy |-> TRUE]

LitAt(s, p, i, ic) ==
    /\ i + Len(p) - 1 <= Len(s)
    /\ IF ic THEN /\ Len(p) > 0 => LowerCh(Ch(s, i)) = LowerCh(Ch(p, 1))
                  /\ Lower(SubSeq(s, i, i + Len(p) - 1)) = Lower(p)
             ELSE SubSeq(s, i, i + Len(p) - 1) = p

InClass(c, cls, ic) ==
    \/ c \in cls
    \/ ic /\ (LowerCh(c) \in cls \/ UpperCh(c) \in cls)

SetGroup(res, i) ==
    [k \in 1..Len(res) |-> [e |-> res[k].e, g |-> <<i, res[k].e>>]]

RECURSIVE M(_, _, _, _)
RECURSIVE CatFrom(_, _, _, _, _, _)
RECURSIVE CatOver(_, _, _, _, _, _, _)
RECURSIVE CatAll(_, _, _, _, _)
RECURSIVE RepChars(_, _, _, _)
RECURSIVE AltFrom(_, _, _, _, _)
RECURSIVE RepFrom(_, _, _, _, _)
RECURSIVE RepOver(_, _, _, _, _, _, _)

M(r, s, i, ic) ==
    CASE r.t = "lit" ->
            IF LitAt(s, r.p, i, ic)
            THEN <<[e |-> i + Len(r.p), g |-> <<>>]>> ELSE <<>>
      [] r.t = "cls" ->
            IF i <= Len(s) /\ InClass(Ch(s, i), r.c, ic)
            THEN <<[e |-> i + 1, g |-> <<>>]>> ELSE <<>>
      [] r.t = "ncls" ->
            IF i <= Len(s) /\ ~InClass(Ch(s, i), r.c, ic)
            THEN <<[e |-> i + 1, g |-> <<>>]>> ELSE <<>>
      [] r.t = "eos" ->
            IF i = Len(s) + 1 \/ (i = Len(s) /\ Ch(s, i) = "\n")
            THEN <<[e |-> i, g |-> <<>>]>> ELSE <<>>
      [] r.t = "grp" -> SetGroup(M(r.r, s, i, ic), i)
      [] r.t = "cat" -> CatFrom(r.rs, 1, s, i, ic, <<>>)
      [] r.t = "alt" -> AltFrom(r.rs, 1, s, i, ic)
      [] r.t = "rep" ->
            IF r.r.t \in {"cls", "ncls"} THEN RepChars(r, s, i, ic)
            ELSE RepFrom(r, s, i, ic, 0)

CatFrom(rs, k, s, i, ic, g) ==
    IF k > Len(rs) THEN <<[e |-> i, g |-> g]>>
    ELSE CatAll(M(rs[k], s, i, ic), rs, k, s, <<ic, g>>)

\* the ways the rest of rs matches after each of the ways res of rs[k]
CatAll(res, rs, k, s, icg) == CatOver(res, 1, Len(res), rs, k, s, icg)

\* the ways the rest of rs matches after each of the ways lo..hi of res, in
\* order; the group is the one of the first element that has one
CatOver(res, lo, hi, rs, k, s, icg) ==
    IF lo > hi THEN <<>>
    ELSE IF lo = hi
    THEN CatFrom(rs, k + 1, s, res[lo].e, icg[1],
                 IF Len(icg[2]) > 0 THEN icg[2] ELSE res[lo].g)
    ELSE CatOver(res, lo, (lo + hi) \div 2, rs, k, s, icg)
         \o CatOver(res, (lo + hi) \div 2 + 1, hi, rs, k, s, icg)

\* the end of the run of characters of s, from position i, that r.r takes
RunEnd(r, s, i, ic) ==
    CHOOSE k \in i..(Len(s) + 1) :
        /\ Len(M(r.r, s, k, ic)) = 0
        /\ \A j \in i..(k - 1) : Len(M(r.r, s, j, ic)) > 0

\* the ways of a repetition that may take up to n characters: the longest
\* first when greedy, the shortest first when lazy
RepWays(r, i, n) ==
    IF n < r.lo THEN <<>>
    ELSE [k \in 1..(n - r.lo + 1) |->
            [e |-> IF r.lazy THEN i + r.lo + k - 1 ELSE i + n - k + 1, g |-> <<>>]]

\* the ways of a repetition of a character class over a run of n characters
RepRun(r, i, n) == RepWays(r, i, IF r.hi # Inf /\ n > r.hi THEN r.hi ELSE n)

\* r.r{lo,hi} for a character class r.r
RepChars(r, s, i, ic) == RepRun(r, i, RunEnd(r, s, i, ic) - i)

AltFrom(rs, k, s, i, ic) ==
    IF k > Len(rs) THEN <<>>
    ELSE M(rs[k], s, i, ic) \o AltFrom(rs, k + 1, s, i, ic)

RepFrom(r, s, i, ic, n) ==
    LET more == IF r.hi = Inf \/ n < r.hi
                THEN RepOver(M(r.r, s, i, ic), 1, r, s, i, ic, n)
                ELSE <<>>
        stop == IF n >= r.lo THEN <<[e |-> i, g |-> <<>>]>> ELSE <<>>
    IN  IF r.lazy THEN stop \o more ELSE more \o stop

RepOver(res, j, r, s, i, ic, n) ==
    IF j > Len(res) THEN <<>>
    ELSE (IF res[j].e > i THEN RepFrom(r, s, res[j].e, ic, n + 1) ELSE <<>>)
         \o RepOver(res, j + 1, r, s, i, ic, n)

NoMatch == [found |-> FALSE, s |-> 0, e |-> 0, g |-> <<>>]

RECURSIVE FirstStart(_, _, _, _, _)
\* a when it is a position, else the first position of lo..hi r matches from
FirstOr(a, r, s, ic, lo, hi) == IF a # 0 THEN a ELSE FirstStart(r, s, ic, lo, hi)

\* the first position of lo..hi from which r matches s; 0 if there is none
FirstStart(r, s, ic, lo, hi) ==
    IF lo > hi THEN 0
    ELSE IF lo = hi THEN (IF Len(M(r, s, lo, ic)) > 0 THEN lo ELSE 0)
    ELSE FirstOr(FirstStart(r, s, ic, lo, (lo + hi) \div 2), r, s, ic,
                 (lo + hi) \div 2 + 1, hi)

\* the match object of a match from position st whose ways are res
MatchAt(st, res) ==
    IF st = 0 THEN NoMatch
    ELSE [found |-> TRUE, s |-> st, e |-> res[1].e, g |-> res[1].g]

\* the match object of the match of r from position st (0: there is none)
SearchAt(r, s, ic, st) == MatchAt(st, M(r, s, st, ic))

\* the scan of re.search: the leftmost position, from i on, r matches from
SearchFrom(r, s, i, ic) == SearchAt(r, s, ic, FirstStart(r, s, ic, i, Len(s) + 1))

\* re.search(r, s) and re.search(r, s, re.IGNORECASE)
Search(r, s) == SearchFrom(r, s, 1, FALSE)
SearchI(r, s) == SearchFrom(r, s, 1, TRUE)

\* the match object of the ways res of a match from the start
MatchFirst(res) == MatchAt(IF Len(res) > 0 THEN 1 ELSE 0, res)

\* re.match(r, s): at the start of s only
Match(r, s) == MatchFirst(M(r, s, 1, FALSE))

\* match.group(0), match.group(1)
Group0(s, m) == SubSeq(s, m.s, m.e - 1)
Group1(s, m) == SubSeq(s, m.g[1], m.g[2] - 1)
\* whether the pattern has a group 1 that took part in the match
HasGroup1(m) == Len(m.g) > 0

RECURSIVE FindAllFrom(_, _, _)
FindAllFrom(r, s, i) ==
    LET m == SearchFrom(r, s, i, FALSE)
    IN  IF ~m.found THEN <<>>
        ELSE <<Group1(s, m)>>
             \o FindAllFrom(r, s, IF m.e > m.s THEN m.e ELSE m.s + 1)

\* re.findall(r, s) for a pattern with one group: the group's strings
FindAll(r, s) == FindAllFrom(r, s, 1)

(***************************************************************************)
(* Python numbers.  A float read from a decimal literal is kept as the     *)
(* exact decimal it denotes: [i |-> integer digits, f |-> fraction digits],*)
(* with no leading zero in i ("0" for none) and no trailing zero in f, so  *)
(* that equal numbers are equal records.  (A double holds 15 significant   *)
(* digits exactly; the literals of the model stay below that.)             *)
(***************************************************************************)
RECURSIVE StripLeadingZeros(_)
StripLeadingZeros(s) ==
    IF Len(s) > 1 /\ Head(s) = "0" THEN StripLeadingZeros(Tail(s))
    ELSE IF Len(s) = 0 THEN "0" ELSE s

RECURSIVE StripTrailingZeros(_)
StripTrailingZeros(s) ==
    IF Len(s) > 0 /\ Ch(s, Len(s)) = "0"
    THEN StripTrailingZeros(SubSeq(s, 1, Len(s) - 1)) ELSE s

DigitVal(c) == CHOOSE d \in 0..9 : Ch("0123456789", d + 1) = c

\* the number of occurrences of character c in s: s.count(c)
Count(s, c) == Cardinality({i \in 1..Len(s) : Ch(s, i) = c})

\* float(s) succeeds.  For s over digits, '.', ',' and the other characters
\* of the model's alphabet (no sign, exponent, underscore, "inf" or "nan")
\* the literals float() accepts are digits with at most one '.'.
FloatOk(s) ==
    /\ \A i \in 1..Len(s) : Ch(s, i) \in Digits \cup {"."}
    /\ Count(s, ".") <= 1
    /\ \E i \in 1..Len(s) : Ch(s, i) \in Digits

\* float(s) when FloatOk(s)
Float(s) ==
    LET dot == IF Contains(s, ".") THEN CHOOSE i \in 1..Len(s) : Ch(s, i) = "." ELSE Len(s) + 1
    IN  [i |-> StripLeadingZeros(SubSeq(s, 1, dot - 1)),
         f |-> StripTrailingZeros(SubSeq(s, dot + 1, Len(s)))]

Zero == [i |-> "0", f |-> ""]
\* the float of an integer literal, given by its digits
FromInt(digits) == [i |-> StripLeadingZeros(digits), f |-> ""]
IsZero(a) == a.i = "0" /\ a.f = ""

RECURSIVE DigitsLT(_, _)
\* a < b for digit strings compared from the left, the shorter one padded
\* with zeros on the right
DigitsLT(a, b) ==
    IF Len(a) = 0 /\ Len(b) = 0 THEN FALSE
    ELSE LET x == IF Len(a) = 0 THEN 0 ELSE DigitVal(Head(a))
             y == IF Len(b) = 0 THEN 0 ELSE DigitVal(Head(b))
         IN  IF x # y THEN x < y
             ELSE DigitsLT(IF Len(a) = 0 THEN a ELSE Tail(a),
                           IF Len(b) = 0 THEN b ELSE Tail(b))

\* a < b, a <= b on floats
NumLT(a, b) ==
    IF Len(a.i) # Len(b.i) THEN Len(a.i) < Len(b.i)
    ELSE IF a.i # b.i THEN DigitsLT(a.i, b.i)
    ELSE DigitsLT(a.f, b.f)
NumLE(a, b) == a = b \/ NumLT(a, b)

\* f"{int(a):03d}"
IntPad3(a) ==
    IF Len(a.i) = 1 THEN "00" \o a.i ELSE IF Len(a.i) = 2 THEN "0" \o a.i ELSE a.i

(***************************************************************************)
(* Python dicts: functions from key strings to values.                     *)
(***************************************************************************)
\* f"{n:03d}" of a natural number below 1000
Pad3(n) ==
    LET d(k) == Ch("0123456789", k + 1)
    IN  d(n \div 100) \o d((n \div 10) % 10) \o d(n % 10)

EmptyDict == [k \in {} |-> ""]
\* d[k] = v
Put(d, k, v) == (k :> v) @@ d
\* d.update(u)
Update(d, u) == u @@ d
Has(d, k) == k \in DOMAIN d
\* d.get(k, default)
Get(d, k, default) == IF k \in DOMAIN d THEN d[k] ELSE default

(***************************************************************************)
(* utils/helpers.py                                                        *)
(***************************************************************************)
\* corrections with the misread currency signs matched without the blank
\* that follows them
corrections_sem_branco ==
    << <<"Ana Cieuma", "Ana Cleuma">>,
       <<"Ana Cieima", "Ana Cleuma">>,
       <<"Sheiia", "Sheila">>,
       <<"Antonlo", "Antonio">>,
       <<"R5", "R$">>,
       <<"RS", "R$">>,
       <<"2O25", "2025">>,
       <<"O5/", "05/">>,
       <<"NU PAGAMENT0S", "NU PAGAMENTOS">>,
       <<"Wili Bank", "Will Bank">>,
       <<"E2386276220250520201", "E238627622025052020">> >>

\* the corrections dict of correct_common_ocr_errors, in insertion order
corrections ==
    << <<"Ana Cieuma", "Ana Cleuma">>,
       <<"Ana Cieima", "Ana Cleuma">>,
       <<"Sheiia", "Sheila">>,
       <<"Antonlo", "Antonio">>,
       <<"R5 ", "R$ ">>,
       <<"RS ", "R$ ">>,
       <<"2O25", "2025">>,
       <<"O5/", "05/">>,
       <<"NU PAGAMENT0S", "NU PAGAMENTOS">>,
       <<"Wili Bank", "Will Bank">>,
       <<"E2386276220250520201", "E238627622025052020">> >>

RECURSIVE CorrectFrom(_, _)
CorrectFrom(text, k) ==
    IF k > Len(corrections) THEN text
    ELSE CorrectFrom(Replace(text, corrections[k][1], corrections[k][2]), k + 1)

\* correct_common_ocr_errors(text)
correct_common_ocr_errors(text) == CorrectFrom(text, 1)

\* detect_document_layout with the Nubank signature tested first
detect_nubank_primeiro(text) ==
    IF Contains(Lower(text), "nu pagamentos") THEN "nubank"
    ELSE IF Contains(Lower(text), "will bank") \/ Contains(Lower(text), "willbank")
    THEN "will_bank"
    ELSE IF Contains(Lower(text), "caixa") THEN "caixa"
    ELSE IF Contains(Lower(text), "banco do brasil") THEN "bb"
    ELSE IF Contains(Lower(text), "bradesco") THEN "bradesco"
    ELSE IF Contains(Lower(text), "itaú") \/ Contains(Lower(text), "itau") THEN "itau"
    ELSE IF Contains(Lower(text), "santander") THEN "santander"
    ELSE "generico"

\* detect_document_layout without the final else: None ("") when no
\* signature occurs
detect_sem_else(text) ==
    IF Contains(Lower(text), "will bank") \/ Contains(Lower(text), "willbank")
    THEN "will_bank"
    ELSE IF Contains(Lower(text), "nu pagamentos") THEN "nubank"
    ELSE IF Contains(Lower(text), "caixa") THEN "caixa"
    ELSE IF Contains(Lower(text), "banco do brasil") THEN "bb"
    ELSE IF Contains(Lower(text), "bradesco") THEN "bradesco"
    ELSE IF Contains(Lower(text), "itaú") \/ Contains(Lower(text), "itau") THEN "itau"
    ELSE IF Contains(Lower(text), "santander") THEN "santander"
    ELSE ""

\* detect_document_layout(text)
detect_document_layout(text) ==
    LET text_lower == Lower(text)
    IN  IF Contains(text_lower, "will bank") \/ Contains(text_lower, "willbank")
        THEN "will_bank"
        ELSE IF Contains(text_lower, "nu pagamentos") /\ ~Contains(text_lower, "will bank")
        THEN "nubank"
        ELSE IF Contains(text_lower, "caixa econômica") \/ Contains(text_lower, "caixa")
        THEN "caixa"
        ELSE IF Contains(text_lower, "banco do brasil")
        THEN "bb"
        ELSE IF Contains(text_lower, "bradesco")
        THEN "bradesco"
        ELSE IF Contains(text_lower, "itaú") \/ Contains(text_lower, "itau")
        THEN "itau"
        ELSE IF Contains(text_lower, "santander")
        THEN "santander"
        ELSE "generico"

\* \d+[,.]?\d{0,2}
ValorShort == Cat(<<Rep(Cls(Digits), 1, Inf), Rep(Cls({",", "."}), 0, 1), Rep(Cls(Digits), 0, 2)>>)
\* \d+[,.]?\d{2}
ValorTwo == Cat(<<Rep(Cls(Digits), 1, Inf), Rep(Cls({",", "."}), 0, 1), Rep(Cls(Digits), 2, 2)>>)
\* \s*
Ws0 == Rep(Cls(Whitespace), 0, Inf)
\* \s+
Ws1 == Rep(Cls(Whitespace), 1, Inf)

\* valor_patterns of extract_value_with_fallback
fallback_valor_patterns ==
    << Cat(<<Lit("R$"), Ws0, Grp(ValorShort)>>),
       Grp(ValorTwo),
       Cat(<<Lit("Valor"), Rep(Cls({":"} \cup Whitespace), 0, Inf),
             Rep(Lit("R"), 0, 1), Rep(Lit("$"), 0, 1), Ws0, Grp(ValorShort)>>) >>

RECURSIVE FirstPositive(_, _)
\* the inner loop: the first match whose float is > 0, else Zero
FirstPositive(matches, j) ==
    IF j > Len(matches) THEN Zero
    ELSE LET str == Replace(matches[j], ",", ".")
         IN  IF FloatOk(str) /\ ~IsZero(Float(str)) THEN Float(str)
             ELSE FirstPositive(matches, j + 1)

RECURSIVE FallbackFrom(_, _, _)
FallbackFrom(text, expected_values, k) ==
    IF k > Len(fallback_valor_patterns)
    THEN \* fallback: the expected values (whole numbers), formatted "{:.0f}"
         IF \E j \in 1..Len(expected_values) : Contains(text, expected_values[j].i)
         THEN expected_values[CHOOSE j \in 1..Len(expected_values) :
                    /\ Contains(text, expected_values[j].i)
                    /\ \A h \in 1..(j - 1) : ~Contains(text, expected_values[h].i)]
         ELSE Zero
    ELSE LET valor == FirstPositive(FindAll(fallback_valor_patterns[k], text), 1)
         IN  IF ~IsZero(valor) THEN valor ELSE FallbackFrom(text, expected_values, k + 1)

\* extract_value_with_fallback(text, expected_values)
extract_value_with_fallback(text, expected_values) == FallbackFrom(text, expected_values, 1)

(***************************************************************************)
(* ocr/extractor.py                                                        *)
(***************************************************************************)
\* the character class A-Za-záàâãéèêíìîóòôõúùûç\s of the name patterns
NameChars ==
    Letters \cup Whitespace
    \cup {"á", "à", "â", "ã", "é", "è", "ê", "í", "ì", "î", "ó", "ò", "ô", "õ", "ú", "ù", "û", "ç"}
\* ([A-Za-z...\s]+?)
NameGroup == Grp(RepLazy(Cls(NameChars), 1, Inf))

\* destino_patterns of extract_pix_will_bank_data
destino_patterns ==
    << Cat(<<Lit("Para"), Ws1, Lit("Ana Cleuma Sousa Dos Santos")>>),
       Cat(<<Lit("Para"), Ws1, NameGroup, Ws0, Lit("CPF")>>) >>

\* origem_patterns of extract_pix_will_bank_data
will_origem_patterns ==
    << Cat(<<Lit("De"), Ws1, NameGroup, Ws0, Lit("CPF")>>),
       Cat(<<Lit("Origem"), Rep(NotCls({"\n"}), 0, Inf), Lit("De"), Ws1, NameGroup,
             Ws0, Lit("*")>>) >>

\* chave_patterns of extract_pix_will_bank_data
chave_patterns ==
    << Cat(<<Lit("(88)"), Ws0, Lit("99451-5533")>>),
       Cat(<<Lit("88"), Ws0, Lit("99451-5533")>>),
       Lit("+5588994515533") >>

\* The outcome of a call: a returned value, or an exception raised.
Returned(v) == [raised |-> FALSE, value |-> v, erro |-> ""]
Raised(msg) == [raised |-> TRUE, value |-> EmptyDict, erro |-> msg]

\* the destino loop of extract_pix_will_bank_data: the first pattern that
\* matches decides; match.group(1) of a pattern with no group raises
\* IndexError.  [raised, nome], nome = "" for None.
WillDestino(cleaned_text) ==
    LET m1 == SearchI(destino_patterns[1], cleaned_text)
        m2 == SearchI(destino_patterns[2], cleaned_text)
    IN  IF m1.found
        THEN IF Contains(Group0(cleaned_text, m1), "Ana Cleuma")
             THEN [raised |-> FALSE, nome |-> "Ana Cleuma Sousa Dos Santos"]
             ELSE [raised |-> TRUE, nome |-> ""]
        ELSE IF m2.found
        THEN IF Contains(Group0(cleaned_text, m2), "Ana Cleuma")
             THEN [raised |-> FALSE, nome |-> "Ana Cleuma Sousa Dos Santos"]
             ELSE [raised |-> FALSE, nome |-> Strip(Group1(cleaned_text, m2))]
        ELSE [raised |-> FALSE, nome |-> ""]

\* the origem branch of extract_pix_will_bank_data; "" for None
WillOrigem(cleaned_text) ==
    IF Contains(cleaned_text, "Antonio Valmi") THEN "Antonio Valmi Passos Da Rocha"
    ELSE IF Contains(cleaned_text, "Sheila Fernandes") THEN "Sheila Fernandes Da Silva"
    ELSE LET m1 == SearchI(will_origem_patterns[1], cleaned_text)
             m2 == SearchI(will_origem_patterns[2], cleaned_text)
         IN  IF m1.found THEN Strip(Group1(cleaned_text, m1))
             ELSE IF m2.found THEN Strip(Group1(cleaned_text, m2))
             ELSE ""

\* dict with the keys of ks set to v when cond holds
PutIf(d, cond, ks, v) == IF cond THEN [k \in ks |-> v] @@ d ELSE d

\* WillValor by the names of the payers only, with no amount read from the text
WillValorSoContexto(cleaned_text) ==
    IF Contains(cleaned_text, "Antonio Valmi") THEN FromInt("33")
    ELSE IF Contains(cleaned_text, "Sheila Fernandes") THEN FromInt("17")
    ELSE Zero

\* the valor section of extract_pix_will_bank_data
WillValor(cleaned_text) ==
    IF Contains(cleaned_text, "Antonio Valmi") THEN FromInt("33")
    ELSE IF Contains(cleaned_text, "Sheila Fernandes") THEN FromInt("17")
    ELSE extract_value_with_fallback(cleaned_text, <<FromInt("17"), FromInt("33")>>)

\* data after the valor and the names have been written
WillNomes(valor_encontrado, destino_nome, origem_nome) ==
    PutIf(PutIf([k \in {"valor_numerico", "valor_total"} |-> valor_encontrado],
                destino_nome # "", {"destino_nome", "recebedor_nome"}, destino_nome),
          origem_nome # "", {"origem_nome", "pagador_nome"}, origem_nome)

\* section 3: the CPFs the names stand for
WillCpfs(data, destino_nome, origem_nome) ==
    PutIf(IF origem_nome # "" /\ Contains(origem_nome, "Antonio")
          THEN [k \in {"origem_cpf", "pagador_cpf"} |-> "***,097.048-**"] @@ data
          ELSE IF origem_nome # "" /\ Contains(origem_nome, "Sheila")
          THEN [k \in {"origem_cpf", "pagador_cpf"} |-> "***,687.783-**"] @@ data
          ELSE data,
          destino_nome # "" /\ Contains(destino_nome, "Ana Cleuma"),
          {"destino_cpf", "recebedor_cpf"}, "***,120.983-**")

\* section 4: the PIX key
WillChave(data, cleaned_text) ==
    PutIf(data, \E k \in 1..Len(chave_patterns) : Search(chave_patterns[k], cleaned_text).found,
          {"chave_pix"}, "(88) 99451-5533")

\* section 5: data and hora by the payer's name
WillDataHoraContexto(data, origem_nome) ==
    IF origem_nome # "" /\ Contains(origem_nome, "Antonio")
    THEN Put(Put(data, "data", "20/05/2025"), "hora", "17:51:22")
    ELSE IF origem_nome # "" /\ Contains(origem_nome, "Sheila")
    THEN Put(Put(data, "data", "22/05/2025"), "hora", "17:52:04")
    ELSE data

\* data['data_hora'] = f"{data.get('data', '')} {data.get('hora', '')}".strip()
WillDataHora(data) ==
    Put(data, "data_hora", Strip(Get(data, "data", "") \o " " \o Get(data, "hora", "")))

\* section 6: the fields written whatever the text
WillObrigatorios(data, valor_encontrado) ==
    ("situacao" :> "Efetivado") @@ ("origem_instituicao" :> "Will Bank")
    @@ ("destino_instituicao" :> "NU PAGAMENTOS - IP") @@ ("tipo_documento" :> "pix")
    @@ ("codigo_operacao" :>
            IF ~IsZero(valor_encontrado)
            THEN "PIX_WILL_BANK_" \o IntPad3(valor_encontrado)
            ELSE "PIX_WILL_BANK_000")
    @@ data

\* the sections in order, once the valor and the names are known
WillData(cleaned_text, valor_encontrado, destino, origem_nome) ==
    IF destino.raised THEN Raised("no such group")
    ELSE Returned(
            WillObrigatorios(
                WillDataHora(
                    WillDataHoraContexto(
                        WillChave(
                            WillCpfs(WillNomes(valor_encontrado, destino.nome, origem_nome),
                                     destino.nome, origem_nome),
                            cleaned_text),
                        origem_nome)),
                valor_encontrado))

\* extract_pix_will_bank_data after cleaned_text = correct_common_ocr_errors(text)
WillFromCleaned(cleaned_text) ==
    WillData(cleaned_text, WillValor(cleaned_text), WillDestino(cleaned_text),
             WillOrigem(cleaned_text))

\* extract_pix_will_bank_data(text)
extract_pix_will_bank_data(text) == WillFromCleaned(correct_common_ocr_errors(text))

\* \d{1,2}
D12 == Rep(Cls(Digits), 1, 2)
\* \d{2}, \d{4}
D2 == Rep(Cls(Digits), 2, 2)
D4 == Rep(Cls(Digits), 4, 4)
\* \w
WordChars == Letters \cup Digits \cup {"_"}

\* valor_patterns of extract_nubank_data
nubank_valor_patterns ==
    << Cat(<<Lit("Valor"), Ws1, Lit("R$"), Ws0, Grp(ValorShort)>>),
       Cat(<<Lit("R$"), Ws0, Grp(ValorShort)>>),
       Cat(<<Grp(ValorTwo), Ws0, Alt(<<Lit("reais"), Eos>>)>>) >>

\* data_patterns of extract_nubank_data
nubank_data_patterns ==
    << Cat(<<Grp(D12), Ws1,
             Alt(<<Lit("MAI"), Lit("JUN"), Lit("JUL"), Lit("AGO"), Lit("SET"), Lit("OUT"),
                   Lit("NOV"), Lit("DEZ")>>),
             Ws1, Grp(D4)>>),
       Grp(Cat(<<D12, Lit("/"), D12, Lit("/"), D4>>)),
       Grp(Cat(<<D12, Ws1, Lit("de"), Ws1, Rep(Cls(WordChars), 1, Inf), Ws1, Lit("de"), Ws1, D4>>)) >>

\* hora_patterns of extract_nubank_data
nubank_hora_patterns ==
    << Grp(Cat(<<D12, Lit(":"), D2, Lit(":"), D2>>)),
       Grp(Cat(<<D12, Lit("h"), D2>>)),
       Cat(<<Lit("às"), Ws1, Grp(Cat(<<D12, Lit(":"), D2, Lit(":"), D2>>))>>) >>

\* origem_patterns of extract_nubank_data
nubank_origem_patterns ==
    << Cat(<<Lit("Nome"), Ws1, NameGroup, Ws0, Lit("Instituição")>>),
       Cat(<<Lit("Origem"), Rep(NotCls({"\n"}), 0, Inf), Lit("Nome"), Ws1, NameGroup,
             Ws0, Lit("Instituição")>>),
       Cat(<<Lit("De"), Ws1, NameGroup, Ws0, Lit("CPF")>>) >>

RECURSIVE NubankValorFrom(_, _)
\* the valor loop: the first pattern whose first match lies in [0.01, 10000];
\* [found, valor]
NubankValorFrom(cleaned_text, k) ==
    IF k > Len(nubank_valor_patterns) THEN [found |-> FALSE, valor |-> Zero]
    ELSE LET m == Search(nubank_valor_patterns[k], cleaned_text)
             valor_str == Replace(Group1(cleaned_text, m), ",", ".")
         IN  IF m.found /\ FloatOk(valor_str)
                /\ NumLE([i |-> "0", f |-> "01"], Float(valor_str))
                /\ NumLE(Float(valor_str), FromInt("10000"))
             THEN [found |-> TRUE, valor |-> Float(valor_str)]
             ELSE NubankValorFrom(cleaned_text, k + 1)

RECURSIVE FirstMatch(_, _, _)
\* the first pattern of ps, from the k-th on, that matches text: [k, m]
FirstMatch(ps, text, k) ==
    IF k > Len(ps) THEN [k |-> 0, m |-> NoMatch]
    ELSE LET m == Search(ps[k], text)
         IN  IF m.found THEN [k |-> k, m |-> m] ELSE FirstMatch(ps, text, k + 1)

RECURSIVE NubankOrigemFrom(_, _)
\* the origem loop: the first pattern whose stripped name is longer than 3
NubankOrigemFrom(cleaned_text, k) ==
    IF k > Len(nubank_origem_patterns) THEN ""
    ELSE LET m == SearchI(nubank_origem_patterns[k], cleaned_text)
             nome == Strip(Group1(cleaned_text, m))
         IN  IF m.found /\ Len(nome) > 3 THEN nome
             ELSE NubankOrigemFrom(cleaned_text, k + 1)

\* NubankValor writing the amount whether a matcher found one or not
NubankValorSempre(data, v) == [k \in {"valor_total", "valor_numerico"} |-> v.valor] @@ data

\* the valor found by the valor loop, written to both keys
NubankValor(data, v) == PutIf(data, v.found, {"valor_total", "valor_numerico"}, v.valor)

\* the data loop: match.group(0) of the first pattern that matches
NubankData(data, cleaned_text, dm) ==
    PutIf(data, dm.m.found, {"data"}, Group0(cleaned_text, dm.m))

\* the hora loop: match.group(1) of the first pattern that matches
NubankHora(data, cleaned_text, hm) ==
    PutIf(data, hm.m.found, {"hora"}, Group1(cleaned_text, hm.m))

\* the destino the text names
NubankDestino(data, cleaned_text) ==
    IF Contains(cleaned_text, "Ana Cleuma")
    THEN ("chave_pix" :> "+5588994515533")
         @@ [k \in {"destino_nome", "recebedor_nome"} |-> "Ana Cleuma Sousa Dos Santos"]
         @@ data
    ELSE data

\* the origem found by the origem loop
NubankOrigem(data, nome) == PutIf(data, nome # "", {"origem_nome", "pagador_nome"}, nome)

\* the fields written whatever the text
NubankObrigatorios(data) ==
    ("situacao" :> "Efetivado") @@ ("origem_instituicao" :> "Nubank")
    @@ ("destino_instituicao" :> "NU PAGAMENTOS - IP") @@ data

\* extract_nubank_data after cleaned_text = correct_common_ocr_errors(text)
NubankFromCleaned(cleaned_text) ==
    Returned(
        NubankObrigatorios(
            NubankOrigem(
                NubankDestino(
                    NubankHora(
                        NubankData(
                            NubankValor(("tipo_documento" :> "transferencia"),
                                        NubankValorFrom(cleaned_text, 1)),
                            cleaned_text, FirstMatch(nubank_data_patterns, cleaned_text, 1)),
                        cleaned_text, FirstMatch(nubank_hora_patterns, cleaned_text, 1)),
                    cleaned_text),
                NubankOrigemFrom(cleaned_text, 1))))

\* extract_nubank_data(text)
extract_nubank_data(text) == NubankFromCleaned(correct_common_ocr_errors(text))

\* the valor of extract_generic_data: the first R$ amount, when float() takes it
GenericValor(text, m) ==
    PutIf(EmptyDict, m.found /\ FloatOk(Replace(Group1(text, m), ",", ".")),
          {"valor_total", "valor_numerico"}, Float(Replace(Group1(text, m), ",", ".")))

\* the tipo_documento of extract_generic_data, from text.lower()
GenericTipo(text_lower) ==
    IF Contains(text_lower, "pix") THEN "pix"
    ELSE IF Contains(text_lower, "transferência") \/ Contains(text_lower, "transferencia")
    THEN "transferencia"
    ELSE IF Contains(text_lower, "boleto") THEN "boleto"
    ELSE "generico"

\* extract_generic_data(text)
extract_generic_data(text) ==
    Returned(PutIf(Put(GenericValor(text, Search(Cat(<<Lit("R$"), Ws0, Grp(ValorShort)>>), text)),
                       "tipo_documento", GenericTipo(Lower(text))),
                   Contains(text, "Ana Cleuma"),
                   {"recebedor_nome", "destino_nome"}, "Ana Cleuma Sousa Dos Santos"))

\* extract_caixa_data(text), extract_bb_data(text): the generic extraction
extract_caixa_data(text) == extract_generic_data(text)
extract_bb_data(text) == extract_generic_data(text)

\* OCRExtractor._extract_by_layout(text, layout)
ExtractByLayout(text, layout) ==
    IF layout = "will_bank" THEN extract_pix_will_bank_data(text)
    ELSE IF layout = "nubank" THEN extract_nubank_data(text)
    ELSE IF layout = "caixa" THEN extract_caixa_data(text)
    ELSE IF layout = "bb" THEN extract_bb_data(text)
    ELSE extract_generic_data(text)

RECURSIVE RemoveChars(_, _)
\* re.sub('[...]', '', s) for a character class: s without the characters of cs
RemoveChars(s, cs) ==
    IF Len(s) = 0 THEN ""
    ELSE IF Len(s) = 1 THEN (IF s \in cs THEN "" ELSE s)
    ELSE RemoveChars(SubSeq(s, 1, Len(s) \div 2), cs)
         \o RemoveChars(SubSeq(s, Len(s) \div 2 + 1, Len(s)), cs)

\* _parse_currency taking '.' for the decimal separator when both occur
parse_currency_ponto(value_str) ==
    IF value_str = "" THEN Zero
    ELSE IF Contains(RemoveChars(value_str, {"R", "$"} \cup Whitespace), ",")
            /\ Contains(RemoveChars(value_str, {"R", "$"} \cup Whitespace), ".")
    THEN Float(Replace(RemoveChars(value_str, {"R", "$"} \cup Whitespace), ",", ""))
    ELSE IF FloatOk(Replace(RemoveChars(value_str, {"R", "$"} \cup Whitespace), ",", "."))
    THEN Float(Replace(RemoveChars(value_str, {"R", "$"} \cup Whitespace), ",", "."))
    ELSE Zero

\* _parse_currency reading whatever is left as a number, parseable or not
parse_currency_sem_except(value_str) ==
    IF value_str = "" THEN Zero
    ELSE IF Contains(RemoveChars(value_str, {"R", "$"} \cup Whitespace), ",")
            /\ Contains(RemoveChars(value_str, {"R", "$"} \cup Whitespace), ".")
    THEN Float(Replace(Replace(RemoveChars(value_str, {"R", "$"} \cup Whitespace), ".", ""),
                       ",", "."))
    ELSE Float(Replace(RemoveChars(value_str, {"R", "$"} \cup Whitespace), ",", "."))

\* OCRExtractor._parse_currency(value_str)
parse_currency(value_str) ==
    IF value_str = "" THEN Zero
    ELSE LET cleaned0 == RemoveChars(value_str, {"R", "$"} \cup Whitespace)
             cleaned ==
                IF Contains(cleaned0, ",") /\ Contains(cleaned0, ".")
                THEN Replace(Replace(cleaned0, ".", ""), ",", ".")
                ELSE IF Contains(cleaned0, ",")
                THEN Replace(cleaned0, ",", ".")
                ELSE cleaned0
         IN  IF FloatOk(cleaned) THEN Float(cleaned) ELSE Zero

RECURSIVE Group3(_)
\* the ',' option of the format mini-language: thousands groups of 3 digits
Group3(digits) ==
    IF Len(digits) <= 3 THEN digits
    ELSE Group3(SubSeq(digits, 1, Len(digits) - 3)) \o ","
         \o SubSeq(digits, Len(digits) - 2, Len(digits))

\* f"{value:,.2f}" for a value with at most two fraction digits
Format2f(value) == Group3(value.i) \o "." \o SubSeq(value.f \o "00", 1, 2)

\* format_currency without the exchange of ',' and '.'
format_currency_us(value) == "R$ " \o Format2f(value)

\* format_currency(value)
format_currency(value) ==
    Replace(Replace(Replace("R$ " \o Format2f(value), ",", "X"), ".", ","), "X", ".")

(***************************************************************************)
(* The inputs.  An image file is [estado, texto]: whether cv2 can read it  *)
(* ("ilegivel": cv2.imread returns None, as for a .pdf), whether           *)
(* preprocessing or tesseract raises on it, and the text tesseract         *)
(* returns for it.                                                         *)
(***************************************************************************)
Image(estado, texto) == [estado |-> estado, texto |-> texto]

\* the image files of the batch runs
Corpus ==
    { Image("ok", "Will Bank\nPara Ana Cleuma Sousa Dos Santos\nR$ 33,00\n20/05/2025\n17:51:22"),
      Image("ok", " \n"),
      Image("ok", "WILL BANK\nPARA ANA CLEUMA SOUSA DOS SANTOS"),
      Image("ok", "NU PAGAMENTOS\nValor R$ 50,00"),
      Image("ilegivel", ""),
      Image("preprocess_falha", ""),
      Image("ocr_falha", "") }

\* the images no text can be read from, whatever they show
FaultImages == {Image("ilegivel", ""), Image("preprocess_falha", ""), Image("ocr_falha", "")}

\* the lines the texts of the layout runs are made of
LayoutFrags ==
    { "Will Bank", "WILLBANK", "NU PAGAMENTOS", "Nubank", "Caixa", "Banco do Brasil",
      "Bradesco", "banco itaú", "Itau", "Santander", "Comprovante", " " }

\* the lines the texts of the field extraction runs are made of, after one
\* of the headers
Headers == {"", "Will Bank", "NU PAGAMENTOS"}
FieldFrags ==
    { "Para Ana Cleuma Sousa Dos Santos", "PARA ANA CLEUMA SOUSA DOS SANTOS",
      "De Joao Silva CPF", "Antonio Valmi", "R$ 33,00", "R$ 1.247,90", "20/05/2025",
      "17:51:22", " " }

RECURSIVE Lines(_, _)
\* the texts of at most n lines of frags, joined by newlines
Lines(frags, n) ==
    IF n = 0 THEN {""}
    ELSE LET shorter == Lines(frags, n - 1)
         IN  shorter \cup frags \cup {s \o "\n" \o f : s \in shorter \ {""}, f \in frags}

LayoutTexts == Lines(LayoutFrags, MaxFrags)
FieldTexts ==
    {IF h = "" THEN b ELSE IF b = "" THEN h ELSE h \o "\n" \o b :
        h \in Headers, b \in Lines(FieldFrags, MaxFrags)}

RECURSIVE Batches(_, _)
\* the sequences of at most n images of S
Batches(S, n) ==
    IF n = 0 THEN {<<>>}
    ELSE LET shorter == Batches(S, n - 1)
         IN  shorter \cup {Append(b, x) : b \in shorter, x \in S}

(***************************************************************************)
(* The state: main()'s locals, extract_data()'s locals for the document    *)
(* being processed, and the currency helpers' argument and result.         *)
(***************************************************************************)
VARIABLES
    image_files,                \* main: the images found, in listing order
    i,                          \* main: the loop index (1-based)
    pc,                         \* the statement the run is at
    clock,                      \* datetime.now()
    raw_text,                   \* extract_data: raw_text
    cleaned_text,               \* extract_data: cleaned_text
    layout,                     \* extract_data: layout
    resultado,                  \* main: resultado, what extract_data returned
    comprovantes_estruturados,  \* main: the batch result list
    estrutura_final,            \* main: what was saved as comprovantes_estruturados.json
    stages,                     \* history: per document, the stages that ran
    cur,                        \* the currency helpers: [pc, amount, value_str, parsed]
    call,                       \* a call of a helper function: [fn, arg, ret, pc]
    chatbot_ready_data,         \* main: the chatbot data of the entries without error
    chatbot_structure,          \* main: the chatbot structure, with its search indices
    dados_chatbot,              \* main: what was saved as dados_chatbot.json
    indexadas                   \* main: the number of transactions the index loop has passed

vars == <<image_files, i, pc, clock, raw_text, cleaned_text, layout, resultado,
          comprovantes_estruturados, estrutura_final, stages, cur, call,
          chatbot_ready_data, chatbot_structure, dados_chatbot, indexadas>>

\* the variables of the chatbot data
chat == <<chatbot_ready_data, chatbot_structure, dados_chatbot, indexadas>>

input_dir == "data/raw/exemplos/"
\* os.path.basename(image_path) of the k-th file of the listing
Basename(k) ==
    "comprovante_" \o Pad3(k) \o (IF image_files[k].estado = "ilegivel" THEN ".pdf" ELSE ".jpg")
ImagePath(k) == input_dir \o Basename(k)

\* no helper function is being called
CallIdle == [fn |-> "", arg |-> <<>>, ret |-> <<>>, pc |-> "idle"]

\* warnings: what the currency parser records besides the float it returns
CurIdle == [pc |-> "idle", amount |-> Zero, value_str |-> "", parsed |-> Zero, warnings |-> <<>>]

InitLocals ==
    /\ i = 1
    /\ pc = "start"
    /\ clock = 0
    /\ raw_text = ""
    /\ cleaned_text = ""
    /\ layout = ""
    /\ resultado = EmptyDict
    /\ comprovantes_estruturados = <<>>
    /\ estrutura_final = EmptyDict
    /\ stages = <<>>
    /\ chatbot_ready_data = <<>>
    /\ chatbot_structure = EmptyDict
    /\ dados_chatbot = EmptyDict
    /\ indexadas = 0

\* a batch run of main() over any listing of at most MaxDocs corpus images
Init ==
    /\ image_files \in Batches(Corpus, MaxDocs)
    /\ InitLocals
    /\ cur = CurIdle
    /\ call = CallIdle

\* a run over one image, its text made of layout signatures
InitLayout ==
    /\ image_files \in {<<img>> : img \in {Image("ok", s) : s \in LayoutTexts} \cup FaultImages}
                       \cup {<<>>}
    /\ InitLocals
    /\ cur = CurIdle
    /\ call = CallIdle

\* a run over one image, its text made of receipt lines
InitDoc ==
    /\ image_files \in {<<img>> : img \in {Image("ok", s) : s \in FieldTexts} \cup FaultImages}
                       \cup {<<>>}
    /\ InitLocals
    /\ cur = CurIdle
    /\ call = CallIdle

(***************************************************************************)
(* main(): the batch loop, with extract_data() stepped stage by stage.     *)
(***************************************************************************)
\* ErrorResult with the amount fields of a receipt filled with zero
ErrorResultComCampos(erro, layout_detectado, image_path, now) ==
    [erro |-> erro, raw_text |-> "", layout_detectado |-> layout_detectado,
     arquivo |-> image_path, processado_em |-> now,
     valor_total |-> Zero, valor_numerico |-> Zero]

\* the dict extract_data returns for a document it could not process
ErrorResult(erro, layout_detectado, image_path, now) ==
    [erro |-> erro, raw_text |-> "", layout_detectado |-> layout_detectado,
     arquivo |-> image_path, processado_em |-> now]

Stage(name) == stages' = [stages EXCEPT ![i] = Append(@, name)]

\* main: the listing is read; an empty listing ends the run with nothing saved
Start ==
    /\ pc = "start"
    /\ pc' = IF Len(image_files) = 0 THEN "done" ELSE "load"
    /\ UNCHANGED <<image_files, i, clock, raw_text, cleaned_text, layout, resultado,
                   comprovantes_estruturados, estrutura_final, stages, cur, call, chat>>

\* AfterDocument of a loop that ends after its first document
AfterDocumentPrimeiro == "save"

\* where the loop goes after the i-th document
AfterDocument == IF i + 1 > Len(image_files) THEN "save" ELSE "load"

\* main: image = load_image(image_path)
LoadImage ==
    /\ pc = "load"
    /\ image_files[i].estado # "ilegivel"
    /\ pc' = "preprocess"
    /\ stages' = Append(stages, <<"load_image">>)
    /\ raw_text' = ""
    /\ cleaned_text' = ""
    /\ layout' = ""
    /\ resultado' = EmptyDict
    /\ UNCHANGED <<image_files, i, clock, comprovantes_estruturados, estrutura_final, cur, call, chat>>

\* LoadImageRaises without the except branch: the exception ends the run
LoadImageAborts ==
    /\ pc = "load"
    /\ image_files[i].estado = "ilegivel"
    /\ pc' = "done"
    /\ UNCHANGED <<image_files, i, clock, raw_text, cleaned_text, layout, resultado,
                   comprovantes_estruturados, estrutura_final, stages, cur, call, chat>>

\* main: load_image raises ValueError; the except branch appends the error entry
LoadImageRaises ==
    /\ pc = "load"
    /\ image_files[i].estado = "ilegivel"
    /\ comprovantes_estruturados' =
            Append(comprovantes_estruturados,
                   [arquivo |-> Basename(i),
                    erro |-> "Não foi possível carregar a imagem: " \o ImagePath(i),
                    processado_em |-> clock])
    /\ clock' = clock + 1
    /\ stages' = Append(stages, <<"load_image">>)
    /\ i' = i + 1
    /\ pc' = AfterDocument
    /\ UNCHANGED <<image_files, raw_text, cleaned_text, layout, resultado, estrutura_final, cur, call, chat>>

\* extract_data: preprocess_image and extract_text_from_image; either may raise
PreprocessAndOcr ==
    /\ pc = "preprocess"
    /\ IF image_files[i].estado = "preprocess_falha"
       THEN /\ resultado' = ErrorResult("cv2.error", "erro", ImagePath(i), clock)
            /\ Stage("preprocess_image")
            /\ pc' = "append"
            /\ UNCHANGED raw_text
       ELSE IF image_files[i].estado = "ocr_falha"
       THEN /\ resultado' = ErrorResult("TesseractError", "erro", ImagePath(i), clock)
            /\ stages' = [stages EXCEPT ![i] = @ \o <<"preprocess_image", "extract_text_from_image">>]
            /\ pc' = "append"
            /\ UNCHANGED raw_text
       ELSE /\ raw_text' = Strip(image_files[i].texto)
            /\ stages' = [stages EXCEPT ![i] = @ \o <<"preprocess_image", "extract_text_from_image">>]
            /\ pc' = "check"
            /\ UNCHANGED resultado
    /\ UNCHANGED <<image_files, i, clock, cleaned_text, layout, comprovantes_estruturados,
                   estrutura_final, cur, call, chat>>

\* CheckEmpty without the test for an empty text
CheckEmptyNever ==
    /\ pc = "check"
    /\ pc' = "correct"
    /\ UNCHANGED <<image_files, i, clock, raw_text, cleaned_text, layout, resultado,
                   comprovantes_estruturados, estrutura_final, stages, cur, call, chat>>

\* extract_data: if not raw_text.strip(): return the 'vazio' result
CheckEmpty ==
    /\ pc = "check"
    /\ IF Strip(raw_text) = ""
       THEN /\ resultado' = ErrorResult("Nenhum texto extraído da imagem", "vazio", ImagePath(i), clock)
            /\ pc' = "append"
       ELSE /\ pc' = "correct"
            /\ UNCHANGED resultado
    /\ UNCHANGED <<image_files, i, clock, raw_text, cleaned_text, layout,
                   comprovantes_estruturados, estrutura_final, stages, cur, call, chat>>

\* extract_data: cleaned_text = correct_common_ocr_errors(raw_text)
Correct ==
    /\ pc = "correct"
    /\ cleaned_text' = correct_common_ocr_errors(raw_text)
    /\ Stage("correct_common_ocr_errors")
    /\ pc' = "layout"
    /\ UNCHANGED <<image_files, i, clock, raw_text, layout, resultado,
                   comprovantes_estruturados, estrutura_final, cur, call, chat>>

\* extract_data: layout = detect_document_layout(cleaned_text)
DetectLayout ==
    /\ pc = "layout"
    /\ layout' = detect_document_layout(cleaned_text)
    /\ Stage("detect_document_layout")
    /\ pc' = "extract"
    /\ UNCHANGED <<image_files, i, clock, raw_text, cleaned_text, resultado,
                   comprovantes_estruturados, estrutura_final, cur, call, chat>>

\* extract_data's result once the extraction has returned or raised
ExtractResult(r) ==
    IF r.raised THEN ErrorResult(r.erro, "erro", ImagePath(i), clock)
    ELSE Update(r.value,
                [raw_text |-> raw_text, cleaned_text |-> cleaned_text,
                 layout_detectado |-> layout, arquivo |-> ImagePath(i),
                 processado_em |-> clock])

\* Extract by an extractor that keeps the layout of the document before
ExtractComMemoria ==
    /\ pc = "extract"
    /\ resultado' =
            ExtractResult(
                ExtractByLayout(cleaned_text,
                                IF i > 1
                                THEN Get(comprovantes_estruturados[i - 1], "layout_detectado", layout)
                                ELSE layout))
    /\ Stage("_extract_by_layout")
    /\ pc' = "append"
    /\ UNCHANGED <<image_files, i, clock, raw_text, cleaned_text, layout,
                   comprovantes_estruturados, estrutura_final, cur, call, chat>>

\* extract_data: extracted_data = self._extract_by_layout(cleaned_text, layout),
\* then the metadata update; an exception of the extraction gives the 'erro' result
Extract ==
    /\ pc = "extract"
    /\ resultado' = ExtractResult(ExtractByLayout(cleaned_text, layout))
    /\ Stage("_extract_by_layout")
    /\ pc' = "append"
    /\ UNCHANGED <<image_files, i, clock, raw_text, cleaned_text, layout,
                   comprovantes_estruturados, estrutura_final, cur, call, chat>>

\* AppendResultado with one dict for every document: the fields of the entry
\* before stay unless the document at hand overwrites them
AppendResultadoAcumulado ==
    /\ pc = "append"
    /\ comprovantes_estruturados' =
            Append(comprovantes_estruturados,
                   Update(IF i > 1 THEN Update(comprovantes_estruturados[i - 1], resultado)
                          ELSE resultado,
                          [arquivo |-> Basename(i), caminho_completo |-> ImagePath(i),
                           processado_em |-> clock + 1]))
    /\ clock' = clock + 2
    /\ i' = i + 1
    /\ pc' = AfterDocument
    /\ UNCHANGED <<image_files, raw_text, cleaned_text, layout, resultado, estrutura_final,
                   stages, cur, call, chat>>

\* main: the metadata of the entry, and comprovantes_estruturados.append(resultado)
AppendResultado ==
    /\ pc = "append"
    /\ comprovantes_estruturados' =
            Append(comprovantes_estruturados,
                   Update(resultado,
                          [arquivo |-> Basename(i), caminho_completo |-> ImagePath(i),
                           processado_em |-> clock + 1]))
    /\ clock' = clock + 2
    /\ i' = i + 1
    /\ pc' = AfterDocument
    /\ UNCHANGED <<image_files, raw_text, cleaned_text, layout, resultado, estrutura_final,
                   stages, cur, call, chat>>

\* ComSucesso counting every entry
TodosComprovantes(entries) == 1..Len(entries)

\* the entries of the batch result that carry / do not carry the error marker
ComErro(entries) == {k \in 1..Len(entries) : Has(entries[k], "erro")}
ComSucesso(entries) == {k \in 1..Len(entries) : ~Has(entries[k], "erro")}

\* main: estrutura_final is built and saved
SaveEstruturados ==
    /\ pc = "save"
    /\ estrutura_final' =
            [metadata |->
                [total_processados |-> Len(comprovantes_estruturados),
                 com_sucesso |-> Cardinality(ComSucesso(comprovantes_estruturados)),
                 com_erro |-> Cardinality(ComErro(comprovantes_estruturados)),
                 data_processamento |-> clock],
             comprovantes |-> comprovantes_estruturados]
    /\ clock' = clock + 1
    /\ pc' = "chatbot"
    /\ UNCHANGED <<image_files, i, raw_text, cleaned_text, layout, resultado,
                   comprovantes_estruturados, stages, cur, call, chat>>


(***************************************************************************)
(* The currency helpers: format_currency applied to an amount and          *)
(* _parse_currency applied to its result, or to a string as read.          *)
(***************************************************************************)
RECURSIVE Strings(_, _)
\* the strings of at most n characters of alphabet
Strings(alphabet, n) ==
    IF n = 0 THEN {""}
    ELSE {""} \cup {c \o s : c \in alphabet, s \in Strings(alphabet, n - 1)}

\* the digits the amounts are written with, and the characters of the strings
AmountDigits == {"0", "7"}
CurAlphabet == {"0", "1", ",", "."}

\* the float of an amount given in cents by its digits
FromCents(c) ==
    [i |-> StripLeadingZeros(SubSeq("00" \o c, 1, Len(c))),
     f |-> StripTrailingZeros(SubSeq("00" \o c, Len(c) + 1, Len(c) + 2))]

\* the non-negative amounts with two decimal digits of the round trip
Amounts == {FromCents(c) : c \in Strings(AmountDigits, MaxAmountDigits) \cup {"124790"}}
\* the strings handed to the parser
CurStrings ==
    Strings(CurAlphabet, MaxCurLen)
    \cup {"1.247,90", "1,247.90", "R$ 1.247,90", "R$ 1,247.90", "R$ 33,00", "R$"}

InitCur ==
    /\ image_files = <<>>
    /\ InitLocals
    /\ cur \in {[CurIdle EXCEPT !.pc = "amount", !.amount = x] : x \in Amounts}
          \cup {[CurIdle EXCEPT !.pc = "string", !.value_str = s] : s \in CurStrings}
    /\ call = CallIdle

\* value_str = format_currency(amount)
FormatCurrency ==
    /\ cur.pc = "amount"
    /\ cur' = [cur EXCEPT !.value_str = format_currency(cur.amount), !.pc = "formatted"]
    /\ UNCHANGED <<image_files, i, pc, clock, raw_text, cleaned_text, layout, resultado,
                   comprovantes_estruturados, estrutura_final, stages,
                   call, chat>>

\* parsed = self._parse_currency(value_str)
ParseCurrency ==
    /\ cur.pc \in {"formatted", "string"}
    /\ cur' = [cur EXCEPT !.parsed = parse_currency(cur.value_str),
                          !.pc = IF cur.pc = "formatted" THEN "roundtrip" ELSE "parsed"]
    /\ UNCHANGED <<image_files, i, pc, clock, raw_text, cleaned_text, layout, resultado,
                   comprovantes_estruturados, estrutura_final, stages,
                   call, chat>>

NextCur ==
    \/ FormatCurrency
    \/ ParseCurrency

\* the runs of the currency helpers
SpecCur == InitCur /\ [][NextCur]_vars

(***************************************************************************)
(* The helper functions called on their own: call is [fn, arg, ret, pc],   *)
(* the function, its argument, what it returned, and whether it has.       *)
(***************************************************************************)
\* [.,]?  and  -?
SepOpt == Rep(Cls({".", ","}), 0, 1)
DashOpt == Rep(Cls({"-"}), 0, 1)
\* \d{3}, \d{11}, \*{3}, \*{2}
D3 == Rep(Cls(Digits), 3, 3)
D11 == Rep(Cls(Digits), 11, 11)
Star3 == Rep(Cls({"*"}), 3, 3)
Star2 == Rep(Cls({"*"}), 2, 2)

\* validate_cpf with patterns that take '.' alone for a group separator
validate_cpf_so_ponto(cpf) ==
    /\ cpf # ""
    /\ \/ Match(Cat(<<Star3, Rep(Cls({"."}), 0, 1), D3, Rep(Cls({"."}), 0, 1), D3, DashOpt,
                      Star2, Eos>>), Strip(cpf)).found
       \/ Match(Cat(<<D3, Rep(Cls({"."}), 0, 1), D3, Rep(Cls({"."}), 0, 1), D3, DashOpt, D2,
                      Eos>>), Strip(cpf)).found

\* cpf_patterns of validate_cpf
cpf_patterns ==
    << Cat(<<Star3, SepOpt, D3, SepOpt, D3, DashOpt, Star2, Eos>>),
       Cat(<<D3, SepOpt, D3, SepOpt, D3, DashOpt, D2, Eos>>),
       Cat(<<Star3, D3, D3, Star2, Eos>>),
       Cat(<<D11, Eos>>) >>

\* any(re.match(pattern, stripped) for pattern in cpf_patterns)
AnyCpfPattern(stripped) == \E k \in 1..Len(cpf_patterns) : Match(cpf_patterns[k], stripped).found

\* validate_cpf(cpf); "" stands for None too
validate_cpf(cpf) == cpf # "" /\ AnyCpfPattern(Strip(cpf))

\* the white space drawn around the strings handed to the validators
Pads == Strings({" ", "\n"}, MaxPad)

\* the strings handed to validate_cpf: CPFs masked and not, with all, some or
\* none of the separators, whole or a character short, bare or padded
CpfStrings ==
    {l \o h \o s1 \o "120" \o s2 \o g \o d \o tl \o r :
        l \in Pads, h \in {"***", "123", "**"}, s1 \in {"", ".", ",", "-"}, s2 \in {"", "."},
        g \in {"983", "98"}, d \in {"", "-"}, tl \in {"**", "00", "*0", "0"}, r \in Pads}
    \cup {"", " ", "abc", "123456789", "***.120.983-**", "12345678900"}

\* a or b of Python for strings, with the second operand preferred
OrStrSegundo(a, b) == IF b # "" THEN b ELSE a

\* a or b of Python for strings: a unless it is empty
OrStr(a, b) == IF a # "" THEN a ELSE b

\* a confidence score: the fraction n / d
Ratio(n, d) == [n |-> n, d |-> d]

\* the confidence of validate_specific_patterns taken over the mismatches only
ConfidenceSobreMismatches(matches, mismatches) ==
    IF Len(matches) + Len(mismatches) > 0
    THEN Ratio(Len(matches), IF Len(mismatches) > 0 THEN Len(mismatches) ELSE 1)
    ELSE Ratio(0, 1)

\* validate_specific_patterns: 'Calcular confiança'
Confidence(matches, mismatches) ==
    IF Len(matches) + Len(mismatches) > 0
    THEN Ratio(Len(matches), Len(matches) + Len(mismatches))
    ELSE Ratio(0, 1)

\* validate_specific_patterns: 'Verificar padrões Ana Cleuma', on the lists v
\* (the messages are kept without their leading mark)
PadroesAnaCleuma(v, data, nome_dest) ==
    IF (Has(data, "destino_nome") \/ Has(data, "recebedor_nome"))
       /\ Contains(nome_dest, "Ana Cleuma")
    THEN IF Contains(Get(data, "chave_pix", ""), "99451-5533")
         THEN [v EXCEPT !.matches = @ \o <<"Destinatária Ana Cleuma identificada",
                                           "Chave PIX Ana Cleuma confirmada">>]
         ELSE [v EXCEPT !.matches = @ \o <<"Destinatária Ana Cleuma identificada">>,
                        !.mismatches = @ \o <<"Chave PIX não confere com Ana Cleuma">>]
    ELSE v

RECURSIVE CpfWillBank(_, _, _)
\* the loop over the CPF fields: the first that has ',' and '.' is a match
CpfWillBank(v, data, fields) ==
    IF fields = <<>> THEN v
    ELSE IF /\ Get(data, Head(fields), "") # ""
            /\ Contains(Get(data, Head(fields), ""), ",")
            /\ Contains(Get(data, Head(fields), ""), ".")
    THEN [v EXCEPT !.matches = @ \o <<"CPF formato Will Bank: " \o Head(fields)>>]
    ELSE CpfWillBank(v, data, Tail(fields))

\* validate_specific_patterns: 'Verificar padrões Will Bank', on the lists v
PadroesWillBank(v, data) ==
    IF Get(data, "origem_instituicao", "") = "Will Bank"
       \/ Get(data, "layout_detectado", "") = "will_bank"
    THEN CpfWillBank([v EXCEPT !.matches = @ \o <<"Will Bank detectado">>], data,
                     <<"origem_cpf", "pagador_cpf", "destino_cpf">>)
    ELSE v

\* the validation with its confidence computed
WithConfidence(v) ==
    [matches |-> v.matches, mismatches |-> v.mismatches,
     confidence |-> Confidence(v.matches, v.mismatches)]

\* validate_specific_patterns(data, expected_patterns)
validate_specific_patterns(data) ==
    WithConfidence(
        PadroesWillBank(
            PadroesAnaCleuma([matches |-> <<>>, mismatches |-> <<>>], data,
                             OrStr(Get(data, "destino_nome", ""),
                                   Get(data, "recebedor_nome", ""))),
            data))

\* pattern_weights of MLModel._calculate_pattern_confidence, in hundredths
pattern_weights ==
    [c \in {"PIX Will Bank", "Transferência Nubank"} |->
        IF c = "PIX Will Bank"
        THEN << <<"will bank", 30>>, <<"para", 10>>, <<"de", 10>>, <<"autenticação", 20>>,
                <<"chave", 10>>, <<"ana cleuma", 20>> >>
        ELSE << <<"nu pagamentos", 30>>, <<"transferência", 20>>, <<"destino", 15>>,
                <<"origem", 15>>, <<"cnpj", 10>>, <<"agência", 10>> >>]

RECURSIVE SumWeights(_, _, _)
\* confidence after the first k patterns of weights: the weights of those in
\* text_lower, added up
SumWeights(weights, text_lower, k) ==
    IF k = 0 THEN 0
    ELSE SumWeights(weights, text_lower, k - 1)
         + (IF Contains(text_lower, weights[k][1]) THEN weights[k][2] ELSE 0)

\* min(confidence, 1.0), in hundredths
Min100(confidence) == IF confidence < 100 THEN confidence ELSE 100

\* MLModel._calculate_pattern_confidence(text, classification)
calculate_pattern_confidence(text, classification) ==
    IF classification \in DOMAIN pattern_weights
    THEN Ratio(Min100(SumWeights(pattern_weights[classification], Lower(text),
                                 Len(pattern_weights[classification]))),
               100)
    ELSE Ratio(50, 100)

RECURSIVE DictsOf(_, _)
\* the dicts that hold, for some of the first n keys of fields, one of the
\* key's values: fields[k] is <<key, values>>
DictsOf(fields, n) ==
    IF n = 0 THEN {EmptyDict}
    ELSE LET rest == DictsOf(fields, n - 1)
         IN  rest \cup {Put(d, fields[n][1], v) : d \in rest, v \in fields[n][2]}

\* the field maps handed to validate_specific_patterns
PatternData ==
    DictsOf(<< <<"destino_nome", {"", "Ana Cleuma Sousa Dos Santos", "Joao Silva"}>>,
               <<"recebedor_nome", {"Ana Cleuma Sousa Dos Santos"}>>,
               <<"chave_pix", {"(88) 99451-5533", "+5588994515533"}>>,
               <<"origem_instituicao", {"Will Bank", "Nubank"}>>,
               <<"layout_detectado", {"will_bank", "generico"}>>,
               <<"origem_cpf", {"", "***,097.048-**"}>>,
               <<"destino_cpf", {"***,120.983-**", "***.120.983-**"}>> >>, 7)

\* the lines of the texts handed to _calculate_pattern_confidence, and the
\* classifications
ConfidenceFrags ==
    { "Will Bank", "Para Ana Cleuma", "Autenticação", "chave",
      "Will Bank para de autenticação chave ana cleuma",
      "NU PAGAMENTOS", "Transferência", "Destino", "Origem CNPJ",
      "nu pagamentos transferência destino origem cnpj agência", "Comprovante" }
Classifications == {"PIX Will Bank", "Transferência Nubank", "PIX Genérico", "Comprovante Genérico"}

\* a or b of Python for floats: a unless it is 0
OrFloat(a, b) == IF ~IsZero(a) THEN a ELSE b

\* data.get('valor_total', 0) or data.get('valor_numerico', 0)
ValorDe(data) == OrFloat(Get(data, "valor_total", Zero), Get(data, "valor_numerico", Zero))

\* standardize_data_for_chatbot(data), called at the time now
standardize_data_for_chatbot(data, now) ==
    [id_unico |-> Get(data, "arquivo", "unknown") \o "_" \o now,
     tipo_transacao |-> Get(data, "tipo_documento", "desconhecido"),
     valor_formatado |-> format_currency(ValorDe(data)),
     valor_numerico |-> ValorDe(data),
     data_formatada |-> Get(data, "data", ""),
     hora_formatada |-> Get(data, "hora", ""),
     origem |->
        [nome |-> OrStr(Get(data, "origem_nome", ""), Get(data, "pagador_nome", "")),
         cpf |-> OrStr(Get(data, "origem_cpf", ""), Get(data, "pagador_cpf", "")),
         instituicao |-> OrStr(Get(data, "origem_instituicao", ""),
                               Get(data, "pagador_instituicao", ""))],
     destino |->
        [nome |-> OrStr(Get(data, "destino_nome", ""), Get(data, "recebedor_nome", "")),
         cpf |-> OrStr(Get(data, "destino_cpf", ""), Get(data, "recebedor_cpf", "")),
         instituicao |-> Get(data, "destino_instituicao", ""),
         chave_pix |-> Get(data, "chave_pix", "")],
     detalhes_transacao |->
        [id |-> Get(data, "id_transacao", ""),
         autenticacao |-> Get(data, "autenticacao", ""),
         situacao |-> Get(data, "situacao", ""),
         descricao |-> Get(data, "descricao", "")],
     metadados |->
        [banco_detectado |-> Get(data, "layout_detectado", ""),
         arquivo_origem |-> Get(data, "arquivo", ""),
         processado_em |-> Get(data, "processado_em", ""),
         confiabilidade |-> IF ~IsZero(Get(data, "valor_total", Zero)) THEN "alta"
                            ELSE "baixa"]]

\* the values of datetime.now().strftime('%Y%m%d_%H%M%S')
Timestamps == {"20250520_175122", "20250522_175204"}

\* the field maps handed to standardize_data_for_chatbot: the names and the
\* amounts in every combination, and the tax IDs in every combination
StandardData ==
    DictsOf(<< <<"origem_nome", {"", "Antonio Carlos"}>>,
               <<"pagador_nome", {"", "Sheila Maria"}>>,
               <<"destino_nome", {"", "Ana Cleuma"}>>,
               <<"recebedor_nome", {"", "Joao Silva"}>>,
               <<"valor_total", {Zero, Float("33.0")}>>,
               <<"valor_numerico", {Zero, Float("1247.9")}>> >>, 6)
    \cup
    DictsOf(<< <<"origem_cpf", {"", "***,097.048-**"}>>,
               <<"pagador_cpf", {"", "12345678900"}>>,
               <<"destino_cpf", {"", "***,120.983-**"}>>,
               <<"recebedor_cpf", {"", "***.120.983-**"}>>,
               <<"arquivo", {"a.jpg"}>>,
               <<"data", {"20/05/2025"}>> >>, 6)

RECURSIVE KeepChars(_, _)
\* re.sub('[^...]', '', s) for a character class: the characters of s in cs
KeepChars(s, cs) ==
    IF Len(s) = 0 THEN ""
    ELSE IF Len(s) = 1 THEN (IF s \in cs THEN s ELSE "")
    ELSE KeepChars(SubSeq(s, 1, Len(s) \div 2), cs)
         \o KeepChars(SubSeq(s, Len(s) \div 2 + 1, Len(s)), cs)

\* validate_cnpj(cnpj)
validate_cnpj(cnpj) == cnpj # "" /\ Len(KeepChars(cnpj, Digits)) = 14

\* required_fields of validate_comprovante, each with the falsy value of its
\* type: 0 for the amount, {} for the payer and the transaction
required_fields ==
    << <<"valor_total", Zero>>, <<"pagador", EmptyDict>>, <<"transacao", EmptyDict>> >>

RECURSIVE CamposObrigatorios(_, _)
\* validate_comprovante: 'Validar campos obrigatórios', over the first k fields
CamposObrigatorios(comprovante, k) ==
    IF k = 0 THEN <<>>
    ELSE CamposObrigatorios(comprovante, k - 1)
         \o (IF ~Has(comprovante, required_fields[k][1])
                \/ comprovante[required_fields[k][1]] = required_fields[k][2]
             THEN <<"Campo obrigatório ausente: " \o required_fields[k][1]>>
             ELSE <<>>)

\* validate_comprovante: 'Validar CPF se presente'
CpfDoPagador(comprovante) ==
    IF /\ Has(comprovante, "pagador")
       /\ Has(comprovante["pagador"], "cpf")
       /\ ~validate_cpf(comprovante["pagador"]["cpf"])
    THEN <<"CPF do pagador inválido">>
    ELSE <<>>

\* validate_comprovante: 'Validar CNPJ se presente'
CnpjDaEmpresa(comprovante) ==
    IF /\ Has(comprovante, "cnpj_empresa")
       /\ comprovante["cnpj_empresa"] # ""
       /\ ~validate_cnpj(comprovante["cnpj_empresa"])
    THEN <<"CNPJ da empresa inválido">>
    ELSE <<>>

\* validate_comprovante(comprovante): the list of errors
validate_comprovante(comprovante) ==
    CamposObrigatorios(comprovante, Len(required_fields))
    \o CpfDoPagador(comprovante)
    \o CnpjDaEmpresa(comprovante)

\* the payers of the receipts handed to validate_comprovante
Pagadores ==
    { EmptyDict,
      Put(EmptyDict, "nome", "Antonio Carlos"),
      Put(Put(EmptyDict, "nome", "Antonio Carlos"), "cpf", ""),
      Put(Put(EmptyDict, "nome", "Antonio Carlos"), "cpf", "***,097.048-**"),
      Put(Put(EmptyDict, "nome", "Sheila Maria"), "cpf", "123.456.789"),
      Put(EmptyDict, "cpf", "12345678900") }

\* the receipts handed to validate_comprovante
Comprovantes ==
    DictsOf(<< <<"valor_total", {Zero, Float("33.0"), Float("1247.9")}>>,
               <<"pagador", Pagadores>>,
               <<"transacao", {EmptyDict, Put(EmptyDict, "situacao", "Efetivada")}>>,
               <<"cnpj_empresa", {"", "11.222.333/0001-81", "11.222.333"}>> >>, 4)

\* date_patterns and time_patterns of _extract_date_time
date_patterns ==
    << Grp(Cat(<<D12, Lit("/"), D12, Lit("/"), D4>>)),
       Grp(Cat(<<D12, Lit("-"), D12, Lit("-"), D4>>)) >>
time_patterns ==
    << Grp(Cat(<<D12, Lit(":"), D2, Lit(":"), D2>>)),
       Grp(Cat(<<D12, Lit(":"), D2>>)) >>

\* the loop over patterns: group(1) of the first that matches; "" for None
FirstGroup1(text, fm) == IF fm.m.found THEN Group1(text, fm.m) ELSE ""

\* _extract_date_time(text): (date_found, time_found)
extract_date_time(text) ==
    << FirstGroup1(text, FirstMatch(date_patterns, text, 1)),
       FirstGroup1(text, FirstMatch(time_patterns, text, 1)) >>

\* meses of _extract_nubank_transferencia_dict
meses ==
    [a \in {"JAN", "FEV", "MAR", "ABR", "MAI", "JUN", "JUL", "AGO", "SET", "OUT", "NOV", "DEZ"}
       |-> CASE a = "JAN" -> "01" [] a = "FEV" -> "02" [] a = "MAR" -> "03"
             [] a = "ABR" -> "04" [] a = "MAI" -> "05" [] a = "JUN" -> "06"
             [] a = "JUL" -> "07" [] a = "AGO" -> "08" [] a = "SET" -> "09"
             [] a = "OUT" -> "10" [] a = "NOV" -> "11" [] a = "DEZ" -> "12"]

\* meses.get(mes_abrev, '01')
meses_get(mes_abrev) == IF mes_abrev \in DOMAIN meses THEN meses[mes_abrev] ELSE "01"

\* the pattern of the date and the time of a Nubank transfer
transferencia_data_hora ==
    Cat(<<D2, Ws1, Rep(Cls(UpperSet), 3, 3), Ws1, D4, Ws1, Lit("-"), Ws1,
          D2, Lit(":"), D2, Lit(":"), D2>>)

RECURSIVE SkipWs(_, _)
\* the first position of s from p on that holds no whitespace: where \s+ ends
SkipWs(s, p) == IF Ch(s, p) \in Whitespace THEN SkipWs(s, p + 1) ELSE p

\* data_hora_match.groups() of the matched text g: the groups have fixed
\* widths and are separated by whitespace
GruposDataHora(g, pm) ==
    [dia |-> SubSeq(g, 1, 2),
     mes_abrev |-> SubSeq(g, pm, pm + 2),
     ano |-> SubSeq(g, SkipWs(g, pm + 3), SkipWs(g, pm + 3) + 3),
     hora |-> SubSeq(g, Len(g) - 7, Len(g))]

\* the date and the time written from the groups gr, the date as YYYY-MM-DD
PutDataHoraIso(data, gr, mes) ==
    ("data" :> gr.ano \o "-" \o mes \o "-" \o gr.dia)
    @@ ("hora" :> gr.hora)
    @@ ("data_hora" :> gr.ano \o "-" \o mes \o "-" \o gr.dia \o " - " \o gr.hora)
    @@ data

\* the date and the time written from the groups gr
PutDataHora(data, gr, mes) ==
    ("data" :> gr.dia \o "/" \o mes \o "/" \o gr.ano)
    @@ ("hora" :> gr.hora)
    @@ ("data_hora" :> gr.dia \o "/" \o mes \o "/" \o gr.ano \o " - " \o gr.hora)
    @@ data

\* _extract_nubank_transferencia_dict: 'Extrair data e hora'
TransferenciaDataHoraDe(data, gr) == PutDataHora(data, gr, meses_get(gr.mes_abrev))
TransferenciaDataHora(data, text, m) ==
    IF m.found
    THEN TransferenciaDataHoraDe(data,
             GruposDataHora(Group0(text, m), SkipWs(Group0(text, m), 3)))
    ELSE data

\* data[k] = match.group(1).strip() for every k of ks, when the pattern matched
PutStripped(data, ks, text, m) == PutIf(data, m.found, ks, Strip(Group1(text, m)))

\* data[k] = match.group(1) for every k of ks, when the pattern matched
PutGroup1(data, ks, text, m) == PutIf(data, m.found, ks, Group1(text, m))

AteFimDaLinha == Grp(Rep(NotCls({"\n"}), 1, Inf))
QualquerLazy == RepLazy(NotCls({}), 0, Inf)

\* the CNPJ of 14 digits, formatted
CnpjFormatado(cnpj) ==
    SubSeq(cnpj, 1, 2) \o "." \o SubSeq(cnpj, 3, 5) \o "." \o SubSeq(cnpj, 6, 8)
    \o "/" \o SubSeq(cnpj, 9, 12) \o "-" \o SubSeq(cnpj, 13, 14)

\* _extract_nubank_transferencia_dict: the CNPJ of the destino
TransferenciaCnpj(data, text, m) ==
    PutIf(data, m.found /\ Len(Group1(text, m)) = 14, {"destino_cnpj", "cnpj_empresa"},
          CnpjFormatado(Group1(text, m)))

\* _extract_nubank_transferencia_dict: 'Extrair dados do DESTINO'
TransferenciaDestino(data, text) ==
    PutStripped(
        TransferenciaCnpj(
            PutStripped(data, {"destino_nome", "nome_empresa"}, text,
                Search(Cat(<<Lit("Destino"), Ws0, Lit("\n"), Ws0, Lit("Nome"), Ws1,
                             AteFimDaLinha>>), text)),
            text, Search(Cat(<<Lit("CNPJ"), Ws1, Grp(Rep(Cls(Digits), 1, Inf))>>), text)),
        {"destino_instituicao"}, text,
        Search(Cat(<<Lit("Destino"), QualquerLazy, Lit("Instituição"), Ws1,
                     AteFimDaLinha>>), text))

\* _extract_nubank_transferencia_dict: 'Extrair dados da ORIGEM'
TransferenciaOrigem(data, text) ==
    PutStripped(
        PutStripped(
            PutStripped(data, {"origem_nome", "pagador_nome"}, text,
                Search(Cat(<<Lit("Origem"), Ws0, Lit("\n"), Ws0, Lit("Nome"), Ws1,
                             AteFimDaLinha>>), text)),
            {"origem_cpf", "pagador_cpf"}, text,
            Search(Cat(<<Lit("Origem"), QualquerLazy, Lit("CPF"), Ws1, AteFimDaLinha>>), text)),
        {"origem_instituicao", "pagador_instituicao"}, text,
        Search(Cat(<<Lit("Origem"), QualquerLazy, Lit("Instituição"), Ws1,
                     AteFimDaLinha>>), text))

\* _extract_nubank_transferencia_dict: 'Extrair conta e agência'
TransferenciaConta(data, text) ==
    PutGroup1(
        PutGroup1(data, {"agencia"}, text,
            Search(Cat(<<Lit("Agência"), Ws1, Grp(Rep(Cls(Digits), 1, Inf))>>), text)),
        {"conta"}, text,
        Search(Cat(<<Lit("Conta"), Ws1, Grp(Rep(Cls(Digits \cup {"-"}), 1, Inf))>>), text))

\* _extract_nubank_transferencia_dict: 'Extrair valor total', valor_str being
\* the group with ',' replaced by '.'
TransferenciaValor(data, found, valor_str) ==
    PutIf(data, found, {"valor_total", "valor_numerico"},
          IF FloatOk(valor_str) THEN Float(valor_str) ELSE Zero)

AlfaNum == Grp(Rep(Cls(Letters \cup Digits), 1, Inf))
Expiracao ==
    Grp(Cat(<<D2, Lit("/"), D2, Lit("/"), D4, Ws1, D2, Lit(":"), D2, Lit(":"), D2>>))

\* _extract_nubank_transferencia_dict: the id, the expiry, the kind of
\* transfer and the situation
TransferenciaFim(data, text) ==
    ("situacao" :> "Concluída")
    @@ PutStripped(
           PutGroup1(
               PutGroup1(data, {"id_transacao"}, text,
                   Search(Cat(<<Lit("Identific"), QualquerLazy, Lit("ador"), Ws1, AlfaNum>>),
                          text)),
               {"data_expiracao"}, text,
               Search(Cat(<<Lit("Expiração"), Ws1, Expiracao>>), text)),
           {"tipo_transferencia"}, text,
           Search(Cat(<<Lit("Tipo de transferência"), Ws1, AteFimDaLinha>>), text))

\* the function after the amount
TransferenciaResto(data, text) ==
    TransferenciaFim(
        TransferenciaConta(
            TransferenciaOrigem(
                TransferenciaDestino(
                    TransferenciaDataHora(data, text, Search(transferencia_data_hora, text)),
                    text),
                text),
            text),
        text)

\* the function from the match m of the amount on
TransferenciaDe(text, m, valor_str) ==
    IF m.found /\ ~FloatOk(valor_str)
    THEN Raised("could not convert string to float: '" \o valor_str \o "'")
    ELSE Returned(TransferenciaResto(TransferenciaValor(EmptyDict, m.found, valor_str), text))

\* the match of the amount, and the function from it on
TransferenciaDoValor(text, m) ==
    TransferenciaDe(text, m, IF m.found THEN Replace(Group1(text, m), ",", ".") ELSE "")

\* _extract_nubank_transferencia_dict(text)
extract_nubank_transferencia_dict(text) ==
    TransferenciaDoValor(text,
        SearchI(Cat(<<Lit("Valor"), Ws1, Lit("R$"), Ws0,
                      Grp(Rep(Cls(Digits \cup {".", ","}), 1, Inf))>>), text))

\* the lines of the texts handed to _extract_date_time and to
\* _extract_nubank_transferencia_dict
DateFrags ==
    { "Valor R$ 150,00", "Valor R$ 1.247,90", "20 MAI 2025 - 17:51:22",
      "03 FEV 2025 - 08:00:01", "20 XYZ 2025 - 17:51:22", "20/05/2025", "5-1-2025",
      "17:51:22", "9:30", "Destino\nNome Ana Cleuma\nInstituição NU PAGAMENTOS",
      "Origem\nNome Joao Silva\nCPF ***.097.048-**",
      "CNPJ 11222333000181 Agência 0001 Conta 4575053-4",
      "Identificador E18236120 Tipo de transferência Pix\nExpiração 21/05/2025 17:51:22" }

\* the lines of the texts handed to extract_pix_will_bank_data
WillBankFrags ==
    { "Will Bank", "De Antonio Valmi Passos", "De Sheila Fernandes", "De Maria Souza CPF",
      "Para Ana Cleuma Sousa Dos Santos", "R$ 33,00", "20/05/2025", "17:51:22" }

(***************************************************************************)
(* main(): the chatbot data and the search indices, built after the batch  *)
(* result was saved.                                                       *)
(***************************************************************************)
RECURSIVE TitleFrom(_, _, _)
\* str.title() from position k on: a letter after a non-letter is put in
\* upper case, a letter after a letter in lower case
TitleFrom(s, k, after_letter) ==
    IF k > Len(s) THEN ""
    ELSE (IF after_letter THEN LowerCh(Ch(s, k)) ELSE UpperCh(Ch(s, k)))
         \o TitleFrom(s, k + 1, Ch(s, k) \in Letters \cup UpperAcentos \cup LowerAcentos)
Title(s) == TitleFrom(s, 1, FALSE)

\* the characters of the date and time strings, in the order of their code
\* points
OrdChars ==
    " ,-./0123456789:ABCDEFGHIJKLMNOPQRSTUVWXYZ_abcdefghijklmnopqrstuvwxyzÀÁÂÃÇÈÉÊÌÍÎÒÓÔÕÙÚÛàáâãçèéêìíîòóôõùúû"
Ord(c) == CHOOSE k \in 1..Len(OrdChars) : Ch(OrdChars, k) = c

RECURSIVE StrLTFrom(_, _, _)
\* a < b of Python for strings that agree before position k
StrLTFrom(a, b, k) ==
    IF k > Len(b) THEN FALSE
    ELSE IF k > Len(a) THEN TRUE
    ELSE IF Ch(a, k) = Ch(b, k) THEN StrLTFrom(a, b, k + 1)
    ELSE Ord(Ch(a, k)) < Ord(Ch(b, k))
StrLT(a, b) == StrLTFrom(a, b, 1)

\* min(strs) and max(strs) of a non-empty set of strings
MinStr(strs) == CHOOSE a \in strs : \A b \in strs : a = b \/ StrLT(a, b)
MaxStr(strs) == CHOOSE a \in strs : \A b \in strs : a = b \/ StrLT(b, a)

RECURSIVE AddDigits(_, _, _)
\* the sum of two strings of digits and a carry, as a string of digits
AddDigits(a, b, carry) ==
    IF Len(a) = 0 /\ Len(b) = 0 THEN (IF carry = 0 THEN "" ELSE "1")
    ELSE LET da == IF Len(a) = 0 THEN 0 ELSE DigitVal(Ch(a, Len(a)))
             db == IF Len(b) = 0 THEN 0 ELSE DigitVal(Ch(b, Len(b)))
         IN  AddDigits(SubSeq(a, 1, Len(a) - 1), SubSeq(b, 1, Len(b) - 1),
                       (da + db + carry) \div 10)
             \o Ch("0123456789", ((da + db + carry) % 10) + 1)

\* the amount in cents (the amounts of the receipts have at most two decimals)
Cents(v) == v.i \o SubSeq(v.f \o "00", 1, 2)

RECURSIVE SumCents(_, _)
SumCents(items, k) ==
    IF k = 0 THEN "0"
    ELSE AddDigits(SumCents(items, k - 1), Cents(items[k].resumo.valor_numerico), 0)

\* sum([item['resumo']['valor_numerico'] for item in items]), taken in exact
\* decimal arithmetic
SumValores(items) ==
    IF Len(items) = 0 THEN Zero ELSE FromCents(SumCents(items, Len(items)))

\* 'PF' if cpf else 'PJ'
TipoPessoa(cpf) == IF cpf # "" THEN "PF" ELSE "PJ"

\* tags_busca of the chatbot data
TagsBusca(st) ==
    << Lower(st.tipo_transacao),
       st.metadados.banco_detectado,
       IF st.destino.nome # "" THEN Lower(st.destino.nome) ELSE "",
       IF ~IsZero(st.valor_numerico) THEN "valor_" \o st.valor_numerico.i ELSE "" >>

\* the chatbot data built from the standardized data st and the pattern
\* validation pv
ChatbotData(comprovante_dict, st, pv) ==
    [id_transacao |-> st.id_unico,
     resumo |->
        [tipo |-> st.tipo_transacao,
         valor |-> st.valor_formatado,
         valor_numerico |-> st.valor_numerico,
         data_completa |-> Strip(st.data_formatada \o " " \o st.hora_formatada),
         status |-> Get(comprovante_dict, "situacao", "Processado")],
     participantes |->
        [origem |->
            [nome_completo |-> st.origem.nome, documento |-> st.origem.cpf,
             banco |-> st.origem.instituicao, tipo_pessoa |-> TipoPessoa(st.origem.cpf)],
         destino |->
            [nome_completo |-> st.destino.nome, documento |-> st.destino.cpf,
             banco |-> st.destino.instituicao, chave_pix |-> st.destino.chave_pix,
             tipo_pessoa |-> TipoPessoa(st.destino.cpf)]],
     detalhes_operacao |->
        [codigo_transacao |-> st.detalhes_transacao.id,
         codigo_autenticacao |-> st.detalhes_transacao.autenticacao,
         descricao_operacao |-> st.detalhes_transacao.descricao,
         tipo_operacao |-> IF Contains(Lower(st.tipo_transacao), "pix") THEN "PIX"
                           ELSE "Transferência",
         canal_utilizado |-> Title(Replace(st.metadados.banco_detectado, "_", " "))],
     metadados_sistema |->
        [arquivo_fonte |-> st.metadados.arquivo_origem,
         data_processamento |-> st.metadados.processado_em,
         nivel_confianca |-> st.metadados.confiabilidade,
         validacoes |->
            [padroes_reconhecidos |-> pv.matches,
             alertas |-> pv.mismatches,
             score_confianca |-> pv.confidence]],
     consultas_chatbot |->
        [query_valor |-> "transação de " \o st.valor_formatado,
         query_destinatario |-> "pagamento para " \o st.destino.nome,
         query_data |-> "operação em " \o st.data_formatada,
         query_tipo |-> st.tipo_transacao \o " via " \o st.metadados.banco_detectado,
         tags_busca |-> TagsBusca(st)]]

\* create_chatbot_ready_data(comprovante_dict), called at the time now
create_chatbot_ready_data(comprovante_dict, now) ==
    ChatbotData(comprovante_dict,
                standardize_data_for_chatbot(comprovante_dict, now),
                validate_specific_patterns(comprovante_dict))

\* datetime.now().strftime('%Y%m%d_%H%M%S') at the time c of the clock
Stamp(c) == "20250520_175" \o Pad3(c)

\* the entries of the batch result without the error marker, in their order
SemErro(entries) == SelectSeq(entries, LAMBDA c : ~Has(c, "erro"))

\* the loop that prepares the chatbot data: every entry without the marker,
\* all within one second of the clock
ChatbotReadyData(sucesso, now) ==
    [k \in 1..Len(sucesso) |-> create_chatbot_ready_data(sucesso[k], now)]

\* the non-empty values of data_completa
DatasCompletas(items) ==
    {items[k].resumo.data_completa : k \in 1..Len(items)} \ {""}

\* periodo_cobertura of the metadata
PeriodoCobertura(datas) ==
    [mais_antigo |-> IF datas # {} THEN MinStr(datas) ELSE "",
     mais_recente |-> IF datas # {} THEN MaxStr(datas) ELSE ""]

\* chatbot_structure as it is created, its indices empty; list(set(...)) has
\* no order to rely on and is kept as a set
ChatbotStructure(items, now) ==
    [metadata |->
        [total_transacoes |-> Len(items),
         tipos_encontrados |-> {items[k].resumo.tipo : k \in 1..Len(items)},
         bancos_detectados |-> {items[k].detalhes_operacao.canal_utilizado : k \in 1..Len(items)},
         valor_total_processado |-> SumValores(items),
         periodo_cobertura |-> PeriodoCobertura(DatasCompletas(items)),
         processado_em |-> now],
     transacoes |-> items,
     indices_busca |->
        [por_destinatario |-> EmptyDict, por_valor |-> EmptyDict,
         por_tipo |-> EmptyDict, por_banco |-> EmptyDict]]

\* main: the chatbot data of the entries without error; with no such entry
\* nothing more is built or saved
PrepareChatbot ==
    /\ pc = "chatbot"
    /\ chatbot_ready_data' = ChatbotReadyData(SemErro(comprovantes_estruturados), Stamp(clock))
    /\ IF Len(chatbot_ready_data') > 0
       THEN /\ chatbot_structure' = ChatbotStructure(chatbot_ready_data', clock)
            /\ clock' = clock + 1
            /\ pc' = "indices"
       ELSE /\ pc' = "done"
            /\ UNCHANGED <<chatbot_structure, clock>>
    /\ UNCHANGED <<image_files, i, raw_text, cleaned_text, layout, resultado,
                   comprovantes_estruturados, estrutura_final, stages, cur, call,
                   dados_chatbot, indexadas>>

\* index[key].append(id), the list of a new key being created first
IndexAppend(index, key, id) ==
    IF Has(index, key) THEN [index EXCEPT ![key] = Append(@, id)]
    ELSE Put(index, key, <<id>>)

\* index[key].append(id) under a condition
IndexAppendIf(index, cond, key, id) == IF cond THEN IndexAppend(index, key, id) ELSE index

\* the tens of the integer part of the amount: int(valor//10)
Dezenas(valor) == IF Len(valor.i) = 1 THEN "" ELSE SubSeq(valor.i, 1, Len(valor.i) - 1)

\* valor_faixa with buckets of a hundred
valor_faixa_centena(valor) ==
    IF Len(valor.i) <= 2 THEN "0-99"
    ELSE SubSeq(valor.i, 1, Len(valor.i) - 2) \o "00-"
         \o SubSeq(valor.i, 1, Len(valor.i) - 2) \o "99"

\* valor_faixa of the amount: f"{int(valor//10)*10}-{int(valor//10)*10+9}"
valor_faixa(valor) ==
    (IF Dezenas(valor) = "" THEN "0" ELSE Dezenas(valor) \o "0")
    \o "-" \o Dezenas(valor) \o "9"

\* the body of the index loop for one transaction
IndexarTransacao(indices, transacao) ==
    [por_destinatario |->
        IndexAppendIf(indices.por_destinatario,
                      transacao.participantes.destino.nome_completo # "",
                      transacao.participantes.destino.nome_completo, transacao.id_transacao),
     por_valor |->
        IndexAppendIf(indices.por_valor, ~IsZero(transacao.resumo.valor_numerico),
                      valor_faixa(transacao.resumo.valor_numerico), transacao.id_transacao),
     por_tipo |-> IndexAppend(indices.por_tipo, transacao.resumo.tipo, transacao.id_transacao),
     por_banco |->
        IndexAppend(indices.por_banco, transacao.detalhes_operacao.canal_utilizado,
                    transacao.id_transacao)]

\* main: one turn of the index loop, for the next transaction of
\* chatbot_ready_data
IndexTransacao ==
    /\ pc = "indices"
    /\ indexadas < Len(chatbot_ready_data)
    /\ chatbot_structure' =
            [chatbot_structure EXCEPT
                !.indices_busca = IndexarTransacao(@, chatbot_ready_data[indexadas + 1])]
    /\ indexadas' = indexadas + 1
    /\ pc' = IF indexadas + 1 = Len(chatbot_ready_data) THEN "save_chatbot" ELSE "indices"
    /\ UNCHANGED <<image_files, i, clock, raw_text, cleaned_text, layout, resultado,
                   comprovantes_estruturados, estrutura_final, stages, cur, call,
                   chatbot_ready_data, dados_chatbot>>

\* SaveChatbot without the write: the run ends with no chatbot file
SaveChatbotSemEscrita ==
    /\ pc = "save_chatbot"
    /\ pc' = "done"
    /\ UNCHANGED <<image_files, i, clock, raw_text, cleaned_text, layout, resultado,
                   comprovantes_estruturados, estrutura_final, stages, cur, call, chat>>

\* main: save_results(chatbot_structure, chatbot_path)
SaveChatbot ==
    /\ pc = "save_chatbot"
    /\ dados_chatbot' = chatbot_structure
    /\ pc' = "done"
    /\ UNCHANGED <<image_files, i, clock, raw_text, cleaned_text, layout, resultado,
                   comprovantes_estruturados, estrutura_final, stages, cur, call,
                   chatbot_ready_data, chatbot_structure, indexadas>>

Next ==
    \/ Start
    \/ LoadImage
    \/ LoadImageRaises
    \/ PreprocessAndOcr
    \/ CheckEmpty
    \/ Correct
    \/ DetectLayout
    \/ Extract
    \/ AppendResultado
    \/ SaveEstruturados
    \/ PrepareChatbot
    \/ IndexTransacao
    \/ SaveChatbot

\* the batch runs
Spec == Init /\ [][Next]_vars
\* the runs over one document made of layout signatures
SpecLayout == InitLayout /\ [][Next]_vars
\* the runs over one document made of receipt lines
SpecDoc == InitDoc /\ [][Next]_vars

\* most documents of a batch in the runs that follow the chatbot data
MaxLote == 3

\* the images of those batches: two receipts with amounts of one bucket, one
\* of them with a payee; a receipt with a date and a payer only; a document
\* with no amount; a document with no text; a file that cannot be loaded
CorpusChat ==
    { Image("ok", "Will Bank\nPara Ana Cleuma Sousa Dos Santos\nR$ 33,00\n20/05/2025\n17:51:22"),
      Image("ok", "Will Bank\nDe Sheila Fernandes"),
      Image("ok", "Comprovante\nR$ 37,50"),
      Image("ok", "Banco do Brasil"),
      Image("ok", " \n"),
      Image("ilegivel", "") }

\* a batch run of main() over any listing of at most MaxLote of those images
InitChat ==
    /\ image_files \in Batches(CorpusChat, MaxLote)
    /\ InitLocals
    /\ cur = CurIdle
    /\ call = CallIdle

\* the batch runs that follow the chatbot data
SpecChat == InitChat /\ [][Next]_vars

\* the lines of the Will Bank receipt of the end-to-end scenario
CenarioPartes ==
    <<"Will Bank", "Para Ana Cleuma Sousa Dos Santos", "R$ 33,00", "20/05/2025", "17:51:22">>

\* what stands between two lines of the text read from the image
CenarioSeps == {"\n", " "}

RECURSIVE JoinBy(_, _, _)
\* the first k strings of parts in the order ordem, joined by sep
JoinBy(parts, ordem, sep) ==
    IF Len(ordem) = 0 THEN ""
    ELSE IF Len(ordem) = 1 THEN parts[ordem[1]]
    ELSE JoinBy(parts, SubSeq(ordem, 1, Len(ordem) - 1), sep) \o sep \o parts[ordem[Len(ordem)]]

\* the orders the lines can be read in
Ordens(n) == {o \in [1..n -> 1..n] : \A a, b \in 1..n : o[a] = o[b] => a = b}

\* the texts of the scenario: its lines in every order
CenarioTexts ==
    {JoinBy(CenarioPartes, o, sep) : o \in Ordens(Len(CenarioPartes)), sep \in CenarioSeps}

\* a run over one image of the scenario
InitCenario ==
    /\ image_files \in {<<img>> : img \in {Image("ok", s) : s \in CenarioTexts} \cup FaultImages}
                       \cup {<<>>}
    /\ InitLocals
    /\ cur = CurIdle
    /\ call = CallIdle

\* the runs over one document of the end-to-end scenario
SpecCenario == InitCenario /\ [][Next]_vars

\* the first lines of the texts with misread characters
OcrHeaders == {"Will Bank", "NU PAGAMENTOS", "Comprovante"}

\* the lines of those texts: misread names, amounts, dates and codes, and
\* lines close to a misreading that are none
OcrFrags ==
    { "E2386276220250520201", "E23862762202505202011", "Para Ana Cieuma", "Valor RS",
      "RS 33,00", "R$ 33,00", "2O/O5/2O25", "Wili Bank" }

OcrTexts == {h \o "\n" \o b : h \in OcrHeaders, b \in Lines(OcrFrags, MaxFrags) \ {""}}

\* a run over one image with misread characters
InitOcr ==
    /\ image_files \in {<<img>> : img \in {Image("ok", s) : s \in OcrTexts} \cup FaultImages}
                       \cup {<<>>}
    /\ InitLocals
    /\ cur = CurIdle
    /\ call = CallIdle

\* the runs over one document with misread characters
SpecOcr == InitOcr /\ [][Next]_vars

\* the text the patterns of _extract_by_layout(text, layout_detectado) are matched
\* against: the Will Bank and the Nubank extractions correct their text first
TextoDaExtracao(text, layout_detectado) ==
    IF layout_detectado \in {"will_bank", "nubank"} THEN correct_common_ocr_errors(text)
    ELSE text

(***************************************************************************)
(* ocr/extractor.py: the extractor's own layout detection; utils/helpers.py:*)
(* validate_transaction_data; ml/model.py: the rule-based classification.  *)
(***************************************************************************)
\* OCRExtractor.detect_document_layout(text)
extractor_detect_document_layout(text) ==
    LET text_lower == Lower(text)
    IN  IF Contains(text_lower, "will bank") \/ Contains(text_lower, "willbank")
        THEN "will_bank"
        ELSE IF Contains(text_lower, "nu pagamentos") \/ Contains(text_lower, "nubank")
        THEN "nubank"
        ELSE IF Contains(text_lower, "caixa econômica") \/ Contains(text_lower, "caixa")
        THEN "caixa"
        ELSE IF Contains(text_lower, "banco do brasil")
        THEN "bb"
        ELSE IF Contains(text_lower, "bradesco")
        THEN "bradesco"
        ELSE IF Contains(text_lower, "itaú") \/ Contains(text_lower, "itau")
        THEN "itau"
        ELSE IF Contains(text_lower, "santander")
        THEN "santander"
        ELSE "generico"

\* critical_fields of validate_transaction_data
critical_fields == <<"valor", "data", "nome_pagador">>

\* field not in data or not data[field]
CampoAusente(data, field) == ~Has(data, field) \/ data[field] = ""

\* the errors of the critical fields that are missing, in their order
MissingCritical(data) ==
    LET msg(k) == "Campo crítico ausente: " \o critical_fields[k]
    IN  [k \in 1..Len(SelectSeq(<<1, 2, 3>>, LAMBDA f : CampoAusente(data, critical_fields[f]))) |->
            msg(SelectSeq(<<1, 2, 3>>, LAMBDA f : CampoAusente(data, critical_fields[f]))[k])]

\* the error of a CPF that is there and is not valid
CpfInvalido(data) ==
    IF Has(data, "cpf") /\ data.cpf # "" /\ ~validate_cpf(data.cpf) THEN <<"CPF inválido">>
    ELSE <<>>

\* the error of a valor float() does not take after ',' is made '.'
ValorInvalido(data) ==
    IF Has(data, "valor") /\ ~FloatOk(Replace(data.valor, ",", ".")) THEN <<"Valor inválido">>
    ELSE <<>>

\* valid_fields / max(total_fields, 1)
ConfidenceScore(total_fields, errors) ==
    Ratio(total_fields - Len(errors), IF total_fields > 1 THEN total_fields ELSE 1)

\* validation_result, given its errors
ValidationResult(data, missing_critical, errors) ==
    [is_valid |-> Len(missing_critical) = 0,
     errors |-> errors,
     warnings |-> <<>>,
     confidence_score |-> ConfidenceScore(Cardinality(DOMAIN data), errors)]

\* validate_transaction_data(data)
validate_transaction_data(data) ==
    ValidationResult(data, MissingCritical(data),
                     MissingCritical(data) \o CpfInvalido(data) \o ValorInvalido(data))

\* the dicts handed to validate_transaction_data
TransactionData ==
    DictsOf(<< <<"valor", {"", "33,00", "1.247,90", "abc"}>>,
               <<"data", {"", "20/05/2025"}>>,
               <<"nome_pagador", {"", "Antonio Carlos"}>>,
               <<"cpf", {"", "***.120.983-**", "123"}>>,
               <<"banco", {"Will Bank"}>> >>, 5)

\* None of Python, where a label is expected
PyNone == "None"

\* one of the indicators is in text_lower
AnyIn(indicators, text_lower) == \E ind \in indicators : Contains(text_lower, ind)

\* the branch of classify_document_type for a text with 'will bank'
ClassifyWillBank(text_lower) ==
    IF AnyIn({"para", "de", "chave", "autenticação"}, text_lower) THEN "PIX Will Bank"
    ELSE PyNone

\* the branch of classify_document_type for a text with 'nu pagamentos' or 'nubank'
ClassifyNubank(text_lower) ==
    IF Contains(text_lower, "transferência") \/ Contains(text_lower, "destino")
    THEN "Transferência Nubank"
    ELSE IF Contains(text_lower, "pix") THEN "PIX Nubank"
    ELSE PyNone

\* the if / elif chain of classify_document_type on text_lower
Classify(text_lower) ==
    IF Contains(text_lower, "will bank") THEN ClassifyWillBank(text_lower)
    ELSE IF Contains(text_lower, "nu pagamentos") \/ Contains(text_lower, "nubank")
    THEN ClassifyNubank(text_lower)
    ELSE IF AnyIn({"pix enviado", "pix recebido", "comprovante pix", "comprovante de pix",
                   "dados do recebedor", "dados do pagador", "chave pix"}, text_lower)
    THEN "PIX Genérico"
    ELSE IF Contains(text_lower, "transferência") \/ Contains(text_lower, "transferencia")
    THEN "Transferência Genérica"
    ELSE IF Contains(text_lower, "boleto") \/ Contains(text_lower, "cobrança")
    THEN "Boleto"
    ELSE "Comprovante Genérico"

\* MLModel.classify_document_type(text)
classify_document_type(text) == Classify(Lower(text))

\* the patterns of _extract_key_patterns: R\$\s*\d+[,.]?\d{0,2},
\* \*{3}[.,]?\d{3}[.,]?\d{3}-?\*{2} and \d{2}/\d{2}/\d{4}
key_patterns ==
    << Cat(<<Lit("R$"), Ws0, ValorShort>>),
       Cat(<<Star3, SepOpt, D3, SepOpt, D3, DashOpt, Star2>>),
       Cat(<<Rep(Cls(Digits), 2, 2), Lit("/"), Rep(Cls(Digits), 2, 2), Lit("/"),
             Rep(Cls(Digits), 4, 4)>>) >>

\* <<name>> when cond holds, else the empty list
ListIf(cond, name) == IF cond THEN <<name>> ELSE <<>>

\* MLModel._extract_key_patterns(text)
extract_key_patterns(text) ==
    ListIf(Search(key_patterns[1], text).found, "valor_monetario")
    \o ListIf(Search(key_patterns[2], text).found, "cpf_mascarado")
    \o ListIf(Search(key_patterns[3], text).found, "data")
    \o ListIf(Contains(Lower(text), "will bank"), "will_bank")
    \o ListIf(Contains(Lower(text), "nu pagamentos"), "nubank")
    \o ListIf(Contains(Lower(text), "caixa"), "caixa")

\* the result of predict_with_confidence for one text
Prediction(text, rule_based_type, now) ==
    [text_preview |-> IF Len(text) > 100 THEN SubSeq(text, 1, 100) \o "..." ELSE text,
     classification |-> rule_based_type,
     confidence |-> calculate_pattern_confidence(text, rule_based_type),
     detected_patterns |-> extract_key_patterns(text),
     processed_at |-> now]

\* MLModel.predict_with_confidence(texts), all within one second of the clock
predict_with_confidence(texts, now) ==
    [k \in 1..Len(texts) |-> Prediction(texts[k], classify_document_type(texts[k]), now)]

\* the values of datetime.now().strftime("%Y-%m-%d %H:%M:%S")
MlTimestamps == {"2025-05-20 17:51:22", "2025-05-22 17:52:04"}

\* the lines the texts handed to the classifier are made of
ClassifyFrags ==
    { "Will Bank", "WILL BANK PIX", "Para Ana Cleuma", "Chave", "NU PAGAMENTOS", "Nubank",
      "Transferência", "Destino", "Pix", "Comprovante PIX", "Boleto", "Transferencia",
      "Comprovante" }
ClassifyTexts == Lines(ClassifyFrags, MaxFrags)

\* a call of fn on arg that has not returned
Call(fn, arg) == [fn |-> fn, arg |-> arg, ret |-> <<>>, pc |-> "call"]

\* the calls of the runs of the helper functions
Calls ==
    {Call("validate_cpf", s) : s \in CpfStrings}
    \cup {Call("validate_specific_patterns", d) : d \in PatternData}
    \cup {Call("standardize_data_for_chatbot", d) : d \in StandardData}
    \cup {Call("validate_comprovante", c) : c \in Comprovantes}
    \cup {Call(f, t) : f \in {"_extract_date_time", "_extract_nubank_transferencia_dict"},
                        t \in Lines(DateFrags, MaxFrags)}
    \cup {Call("extract_pix_will_bank_data", t) : t \in Lines(WillBankFrags, MaxFrags)}
    \cup {Call("_calculate_pattern_confidence", <<t, c>>) :
            t \in Lines(ConfidenceFrags, MaxFrags), c \in Classifications}
    \cup {Call("OCRExtractor.detect_document_layout", t) : t \in LayoutTexts}
    \cup {Call("validate_transaction_data", d) : d \in TransactionData}
    \cup {Call("classify_document_type", t) : t \in ClassifyTexts}
    \cup {Call("predict_with_confidence", ts) :
            ts \in {<<>>} \cup {<<t>> : t \in ClassifyTexts}
                        \cup {<<"Will Bank", t>> : t \in ClassifyFrags}}

InitFn ==
    /\ image_files = <<>>
    /\ InitLocals
    /\ cur = CurIdle
    /\ call \in Calls

\* the call returns ret
Return(ret) ==
    /\ call.pc = "call"
    /\ call' = [call EXCEPT !.ret = ret, !.pc = "return"]
    /\ UNCHANGED <<image_files, i, pc, clock, raw_text, cleaned_text, layout, resultado,
                   comprovantes_estruturados, estrutura_final, stages, cur, chat>>

\* ret = validate_cpf(arg)
ValidateCpf == call.fn = "validate_cpf" /\ Return(validate_cpf(call.arg))

\* ret = validate_specific_patterns(arg, {})
ValidateSpecificPatterns ==
    call.fn = "validate_specific_patterns" /\ Return(validate_specific_patterns(call.arg))

\* ret = self._calculate_pattern_confidence(text, classification)
CalculatePatternConfidence ==
    /\ call.fn = "_calculate_pattern_confidence"
    /\ Return(calculate_pattern_confidence(call.arg[1], call.arg[2]))

\* ret = standardize_data_for_chatbot(arg)
StandardizeDataForChatbot ==
    /\ call.fn = "standardize_data_for_chatbot"
    /\ \E now \in Timestamps : Return(standardize_data_for_chatbot(call.arg, now))

\* ret = validate_comprovante(arg)
ValidateComprovante ==
    call.fn = "validate_comprovante" /\ Return(validate_comprovante(call.arg))

\* ret = self._extract_date_time(arg)
ExtractDateTime ==
    call.fn = "_extract_date_time" /\ Return(extract_date_time(call.arg))

\* ret = self._extract_nubank_transferencia_dict(arg), or the exception it
\* raises
ExtractNubankTransferenciaDict ==
    /\ call.fn = "_extract_nubank_transferencia_dict"
    /\ Return(extract_nubank_transferencia_dict(call.arg))

\* ret = self.extract_pix_will_bank_data(arg), or the exception it raises
ExtractPixWillBankData ==
    /\ call.fn = "extract_pix_will_bank_data"
    /\ Return(extract_pix_will_bank_data(call.arg))

\* ret = self.detect_document_layout(arg)
ExtractorDetectDocumentLayout ==
    /\ call.fn = "OCRExtractor.detect_document_layout"
    /\ Return(extractor_detect_document_layout(call.arg))

\* ret = validate_transaction_data(arg)
ValidateTransactionData ==
    call.fn = "validate_transaction_data" /\ Return(validate_transaction_data(call.arg))

\* ret = self.classify_document_type(arg)
ClassifyDocumentType ==
    call.fn = "classify_document_type" /\ Return(classify_document_type(call.arg))

\* ret = self.predict_with_confidence(arg)
PredictWithConfidence ==
    /\ call.fn = "predict_with_confidence"
    /\ \E now \in MlTimestamps : Return(predict_with_confidence(call.arg, now))

NextFn ==
    \/ ValidateCpf
    \/ ExtractPixWillBankData
    \/ ExtractDateTime
    \/ ExtractNubankTransferenciaDict
    \/ ValidateComprovante
    \/ StandardizeDataForChatbot
    \/ ValidateSpecificPatterns
    \/ CalculatePatternConfidence
    \/ ExtractorDetectDocumentLayout
    \/ ValidateTransactionData
    \/ ClassifyDocumentType
    \/ PredictWithConfidence

\* the runs of the helper functions
SpecFn == InitFn /\ [][NextFn]_vars

(***************************************************************************)
(* The claims of the specification.                                        *)
(***************************************************************************)
\* document k is an image whose OCR text is empty or whitespace-only
TextoVazio(k) == image_files[k].estado = "ok" /\ Strip(image_files[k].texto) = ""

\* the extraction of a corrected text raises
ExtracaoLevantaEm(cleaned) ==
    ExtractByLayout(cleaned, detect_document_layout(cleaned)).raised

\* the extraction of the text read from an image raises
ExtracaoLevanta(texto) == ExtracaoLevantaEm(correct_common_ocr_errors(Strip(texto)))

\* some stage raises while document k is processed
Falha(k) ==
    \/ image_files[k].estado # "ok"
    \/ /\ ~TextoVazio(k)
       /\ ExtracaoLevanta(image_files[k].texto)

\* the keys of payer and payee in an entry
PayerPayeeKeys ==
    {"pagador_nome", "pagador_cpf", "recebedor_nome", "recebedor_cpf",
     "origem_nome", "origem_cpf", "destino_nome", "destino_cpf"}

\* the stages of extract_data that work on a non-empty text
TextStages == {"correct_common_ocr_errors", "detect_document_layout", "_extract_by_layout"}

\* C1: a document whose text is empty or whitespace-only never makes
\* extract_data raise (its entry is the one main builds from the returned
\* dict), its entry is an error entry whose valor_numerico is 0 (absent) and
\* that has no payer and no payee, and neither the correction nor the layout
\* detection nor the field extraction is run for it.
C1_EmptyTextErrorReceipt ==
    /\ \A k \in 1..Len(stages) :
            TextoVazio(k) => \A n \in 1..Len(stages[k]) : stages[k][n] \notin TextStages
    /\ \A k \in 1..Len(comprovantes_estruturados) :
            TextoVazio(k) =>
                /\ Has(comprovantes_estruturados[k], "erro")
                /\ Has(comprovantes_estruturados[k], "caminho_completo")
                /\ Get(comprovantes_estruturados[k], "valor_numerico", Zero) = Zero
                /\ DOMAIN comprovantes_estruturados[k] \cap PayerPayeeKeys = {}

\* C1 witness: a batch has ended in which the second document had an empty
\* text and got its error entry after OCR
C1_Witness ==
    /\ pc = "done"
    /\ Len(image_files) >= 2
    /\ TextoVazio(2)
    /\ Has(comprovantes_estruturados[2], "erro")
    /\ stages[2] = <<"load_image", "preprocess_image", "extract_text_from_image">>

\* C2: a fault at any stage of one document becomes an error entry of that
\* document only: the list grows by one entry per document handled, entry k
\* is the one of the k-th file, and when the loop is over there is one entry
\* per input file, with the error marker on every document a stage raised on
\* and on no document that was read and extracted without a fault (the
\* entries with the marker are those of documents with an empty text or a
\* fault, the entries without it those of documents no stage raised on).
C2_FaultsBecomeErrorEntries ==
    /\ Len(comprovantes_estruturados) = i - 1
    /\ \A k \in 1..Len(comprovantes_estruturados) :
            comprovantes_estruturados[k].arquivo = Basename(k)
    /\ pc \in {"save", "done"} => Len(comprovantes_estruturados) = Len(image_files)
    /\ pc = "save" =>
            \A k \in 1..Len(image_files) :
                IF Has(comprovantes_estruturados[k], "erro")
                THEN TextoVazio(k) \/ Falha(k)
                ELSE ~Falha(k)

\* C2 witness: a batch of three has ended whose second document failed in a
\* stage and whose first and third were extracted
C2_Witness ==
    /\ pc = "done"
    /\ Len(image_files) = 3
    /\ Falha(2)
    /\ Has(comprovantes_estruturados[2], "erro")
    /\ ~Has(comprovantes_estruturados[1], "erro")
    /\ ~Has(comprovantes_estruturados[3], "erro")

\* the keys of the entry of a document extract_data gave up on
ErrorEntryKeys ==
    {"erro", "raw_text", "layout_detectado", "arquivo", "caminho_completo", "processado_em"}

C4_ErrorMarkerIffFailed ==
    (pc = "done" /\ Len(image_files) > 0) =>
        /\ \A k \in 1..Len(image_files) :
                Has(comprovantes_estruturados[k], "erro") <=> (Falha(k) \/ TextoVazio(k))
        /\ estrutura_final.metadata.com_sucesso + estrutura_final.metadata.com_erro
                = estrutura_final.metadata.total_processados
        /\ estrutura_final.metadata.total_processados = Len(image_files)

\* C4 witness: a saved batch with entries of both kinds
C4_Witness ==
    /\ pc = "done"
    /\ Len(image_files) = 3
    /\ estrutura_final.metadata.com_sucesso = 2
    /\ estrutura_final.metadata.com_erro = 1

\* the layouts in the order of their priority, and the signatures of each
Prioridade == <<"will_bank", "nubank", "caixa", "bb", "bradesco", "itau", "santander">>
Assinaturas ==
    [will_bank |-> {"will bank", "willbank"}, nubank |-> {"nu pagamentos"},
     caixa |-> {"caixa econômica", "caixa"}, bb |-> {"banco do brasil"},
     bradesco |-> {"bradesco"}, itau |-> {"itaú", "itau"}, santander |-> {"santander"}]
\* a signature of the n-th layout occurs in the lower-cased text
Ocorre(n, text) == \E a \in Assinaturas[Prioridade[n]] : Contains(Lower(text), a)

\* C5: the layout detected for a text is the first one, in the order
\* will_bank, nubank, caixa, bb, bradesco, itau, santander, a signature of
\* which occurs in the lower-cased text; a text with both 'will bank' and
\* 'nu pagamentos' is will_bank.
C5_FirstSignatureWins ==
    layout # "" =>
        /\ \A n \in 1..Len(Prioridade) :
                (Ocorre(n, cleaned_text) /\ \A m \in 1..(n - 1) : ~Ocorre(m, cleaned_text))
                    => layout = Prioridade[n]
        /\ (Contains(Lower(cleaned_text), "will bank")
                /\ Contains(Lower(cleaned_text), "nu pagamentos")) => layout = "will_bank"

\* C5 witness: a text with the signatures of Will Bank and Nubank was classified
C5_Witness ==
    /\ layout = "will_bank"
    /\ Contains(Lower(cleaned_text), "will bank")
    /\ Contains(Lower(cleaned_text), "nu pagamentos")

\* the closed enumeration of layouts
Layouts ==
    {"will_bank", "nubank", "caixa", "bb", "bradesco", "itau", "santander", "generico"}

\* C6: the layout detection is total: once it has run, the layout is one of
\* the eight, and it is 'generico' for every text in which no signature occurs.
C6_DetectionTotal ==
    /\ pc = "extract" => layout \in Layouts
    /\ layout # "" =>
            /\ layout \in Layouts
            /\ (\A n \in 1..Len(Prioridade) : ~Ocorre(n, cleaned_text)) => layout = "generico"

\* C6 witness: a text without any signature was classified
C6_Witness ==
    /\ pc = "extract"
    /\ layout = "generico"
    /\ cleaned_text # ""
    /\ \A n \in 1..Len(Prioridade) : ~Ocorre(n, cleaned_text)

\* the fields of an entry but for the file name, the path and the time stamp
CamposExtraidos(c) ==
    [k \in DOMAIN c \ {"arquivo", "caminho_completo", "processado_em"} |-> c[k]]

MetaKeys == {"raw_text", "cleaned_text", "layout_detectado", "arquivo", "processado_em"}

\* the fields the Will Bank and the Nubank extraction write whatever the text
WillSempre ==
    {"valor_numerico", "valor_total", "data_hora", "situacao", "origem_instituicao",
     "destino_instituicao", "tipo_documento", "codigo_operacao"}
NubankSempre == {"tipo_documento", "situacao", "origem_instituicao", "destino_instituicao"}

\* one of the patterns matches the text (re.search, with re.IGNORECASE or not)
AlgumCasa(patterns, text) == \E k \in 1..Len(patterns) : Search(patterns[k], text).found
AlgumCasaI(patterns, text) == \E k \in 1..Len(patterns) : SearchI(patterns[k], text).found

\* the extraction of the document at hand has returned its fields
Extraido == pc = "append" /\ ~Has(resultado, "erro")

\* the fields present among keys have matched: cond holds
SoSe(keys, cond) == (DOMAIN resultado \cap keys # {}) => cond

C8_WillBank(t) ==
    /\ WillSempre \subseteq DOMAIN resultado
    /\ DOMAIN resultado \subseteq
            WillSempre \cup MetaKeys \cup PayerPayeeKeys \cup {"chave_pix", "data", "hora"}
    /\ SoSe({"destino_nome", "recebedor_nome"}, AlgumCasaI(destino_patterns, t))
    /\ SoSe({"origem_nome", "pagador_nome"},
            \/ Contains(t, "Antonio Valmi")
            \/ Contains(t, "Sheila Fernandes")
            \/ AlgumCasaI(will_origem_patterns, t))
    /\ SoSe({"chave_pix"}, AlgumCasa(chave_patterns, t))
    /\ SoSe({"origem_cpf", "pagador_cpf", "data", "hora"},
            /\ Has(resultado, "origem_nome")
            /\ \/ Contains(resultado.origem_nome, "Antonio")
               \/ Contains(resultado.origem_nome, "Sheila"))
    /\ SoSe({"destino_cpf", "recebedor_cpf"},
            Has(resultado, "destino_nome") /\ Contains(resultado.destino_nome, "Ana Cleuma"))
    /\ ~IsZero(resultado.valor_numerico) =>
            \/ Contains(t, "Antonio Valmi")
            \/ Contains(t, "Sheila Fernandes")
            \/ AlgumCasa(fallback_valor_patterns, t)
            \/ Contains(t, "17")
            \/ Contains(t, "33")

\* the matcher-driven fields of the Nubank layout
C8_Nubank(t) ==
    /\ NubankSempre \subseteq DOMAIN resultado
    /\ DOMAIN resultado \subseteq
            NubankSempre \cup MetaKeys
            \cup {"valor_total", "valor_numerico", "data", "hora", "chave_pix",
                  "destino_nome", "recebedor_nome", "origem_nome", "pagador_nome"}
    /\ SoSe({"valor_total", "valor_numerico"}, AlgumCasa(nubank_valor_patterns, t))
    /\ SoSe({"data"}, AlgumCasa(nubank_data_patterns, t))
    /\ SoSe({"hora"}, AlgumCasa(nubank_hora_patterns, t))
    /\ SoSe({"destino_nome", "recebedor_nome", "chave_pix"}, Contains(t, "Ana Cleuma"))
    /\ SoSe({"origem_nome", "pagador_nome"}, AlgumCasaI(nubank_origem_patterns, t))

\* the matcher-driven fields of the other layouts
C8_Generic(t) ==
    /\ Has(resultado, "tipo_documento")
    /\ DOMAIN resultado \subseteq
            MetaKeys \cup {"tipo_documento", "valor_total", "valor_numerico",
                           "recebedor_nome", "destino_nome"}
    /\ SoSe({"valor_total", "valor_numerico"},
            Search(Cat(<<Lit("R$"), Ws0, Grp(ValorShort)>>), t).found)
    /\ SoSe({"recebedor_nome", "destino_nome"}, Contains(t, "Ana Cleuma"))

C9_CurrencyRoundTrip ==
    cur.pc = "roundtrip" => cur.parsed = cur.amount

\* C9 witness: an amount formatted with two thousands dots was parsed back,
\* and so was 1247.90
C9_Witness ==
    /\ cur.pc = "roundtrip"
    /\ Count(cur.value_str, ".") = 2
    /\ ~IsZero(cur.amount)
    /\ cur.parsed = cur.amount

\* the currency string without 'R', '$' and white space: what is left to read
Limpo == RemoveChars(cur.value_str, {"R", "$", " ", "\n", "\t"})
\* the digits of s, in order
SoDigitos(s) == RemoveChars(s, {",", "."})
\* the position of the last ',' or '.' of s, and of its only ','
UltimoSeparador(s) ==
    CHOOSE p \in 1..Len(s) :
        Ch(s, p) \in {",", "."} /\ \A q \in (p + 1)..Len(s) : Ch(s, q) \notin {",", "."}
PosVirgula(s) == CHOOSE p \in 1..Len(s) : Ch(s, p) = ","
\* the number whose integer digits are those of s before position p and
\* whose fraction digits are those after it
NumeroEm(s, p) ==
    [i |-> StripLeadingZeros(SoDigitos(SubSeq(s, 1, p - 1))),
     f |-> StripTrailingZeros(SoDigitos(SubSeq(s, p + 1, Len(s))))]
\* s is made of digits, one ',' and one '.', with a digit somewhere
UmDeCada(s) ==
    /\ Count(s, ",") = 1
    /\ Count(s, ".") = 1
    /\ \E p \in 1..Len(s) : Ch(s, p) \in Digits

\* C10 as the specification states it: in a string with both ',' and '.'
\* the rightmost of the two is the decimal separator and the other one
\* separates thousands; with ',' alone, ',' is the decimal separator.
C10_RightmostIsDecimal ==
    cur.pc = "parsed" =>
        /\ UmDeCada(Limpo) => cur.parsed = NumeroEm(Limpo, UltimoSeparador(Limpo))
        /\ (Count(Limpo, ",") = 1 /\ Count(Limpo, ".") = 0 /\ Len(Limpo) > 1)
                => cur.parsed = NumeroEm(Limpo, PosVirgula(Limpo))

\* C10 amended: in a string with both ',' and '.', ',' is the decimal
\* separator wherever it stands and every '.' is dropped as a thousands
\* separator ('1.247,90' is 1247.90, but '1,247.90' is 1.2479); with ','
\* alone, ',' is the decimal separator; a string with more than one ',', or
\* with no digit, is 0.
C10_CommaIsDecimal ==
    cur.pc = "parsed" =>
        /\ (Count(Limpo, ",") = 1 /\ \E p \in 1..Len(Limpo) : Ch(Limpo, p) \in Digits)
                => cur.parsed = NumeroEm(Limpo, PosVirgula(Limpo))
        /\ Count(Limpo, ",") > 1 => cur.parsed = Zero
        /\ cur.value_str = "1.247,90" => cur.parsed = [i |-> "1247", f |-> "9"]
        /\ cur.value_str = "1,247.90" => cur.parsed = [i |-> "1", f |-> "2479"]

\* C10 witness: strings with both separators were parsed, the ',' before the
\* '.' in this one
C10_Witness ==
    /\ cur.pc = "parsed"
    /\ cur.value_str = "1,247.90"
    /\ cur.parsed = [i |-> "1", f |-> "2479"]

\* the text the extraction of the document at hand is run on prints the one
\* amount R$ 1.247,90, and no name the Will Bank extraction knows an amount for
SoValorBrasileiro ==
    /\ Contains(cleaned_text, "R$ 1.247,90")
    /\ ~Contains(cleaned_text, "R$ 33,00")
    /\ ~Contains(cleaned_text, "Antonio Valmi")

\* C11: in every extraction path (Will Bank, Nubank, generic), a text whose
\* amount is printed with a thousands dot and a decimal comma, R$ 1.247,90,
\* yields valor_numerico = 1247.90.
C11_BrazilianAmountExtracted ==
    (Extraido /\ SoValorBrasileiro) =>
        /\ Has(resultado, "valor_numerico")
        /\ resultado.valor_numerico = Float("1247.90")

\* C11, what the code does instead: the amount patterns stop after two digits
\* past the first separator, so that the amount read is 1.24
C11_Witness ==
    /\ Extraido
    /\ layout = "generico"
    /\ cleaned_text = "R$ 1.247,90"
    /\ resultado.valor_numerico = Float("1.24")

\* the currency string is no number in the notations the parser reads: it is
\* empty, or what is left of it without 'R', '$' and white space has a
\* character that is no digit, ',' or '.', or no digit, or two ',', or no ','
\* and two '.'
NaoParseavel ==
    \/ cur.value_str = ""
    \/ \E p \in 1..Len(Limpo) : Ch(Limpo, p) \notin Digits \cup {",", "."}
    \/ \A p \in 1..Len(Limpo) : Ch(Limpo, p) \notin Digits
    \/ Count(Limpo, ",") > 1
    \/ Count(Limpo, ",") = 0 /\ Count(Limpo, ".") > 1

\* C12 as the specification states it: for a non-parseable currency string the
\* parser returns 0.00 and a parse warning is recorded on the result.
C12_UnparseableZeroWithWarning ==
    (cur.pc = "parsed" /\ NaoParseavel) =>
        /\ cur.parsed = Zero
        /\ Len(cur.warnings) > 0

\* C12 amended: for a non-parseable currency string the parser returns 0.0
\* and records nothing: the ValueError of float() is swallowed, the result is
\* the float alone, and it is the one a string that reads zero gives; a
\* parseable string never gives a warning either.
C12_UnparseableZeroSilently ==
    cur.pc = "parsed" =>
        /\ NaoParseavel => cur.parsed = Zero
        /\ cur.warnings = <<>>

\* C12 witness: a string with two decimal commas was parsed to 0.0
C12_Witness ==
    /\ cur.pc = "parsed"
    /\ cur.value_str = "1,0,1"
    /\ cur.parsed = Zero
    /\ cur.warnings = <<>>

\* x is made of digits
SoDigitosDe(x) == \A p \in 1..Len(x) : Ch(x, p) \in Digits

\* s is a CPF in form: three '*' or three digits, then two groups of three
\* digits, then two '*' (after '***') or two digits (after digits); before
\* each group there may be one '.' or ',', before the last two one '-'
FormatoCpf(s) ==
    \E s1, s2 \in {"", ".", ","}, d \in {"", "-"} :
        /\ Len(s) = 11 + Len(s1) + Len(s2) + Len(d)
        /\ SubSeq(s, 4, 3 + Len(s1)) = s1
        /\ SoDigitosDe(SubSeq(s, 4 + Len(s1), 6 + Len(s1)))
        /\ SubSeq(s, 7 + Len(s1), 6 + Len(s1) + Len(s2)) = s2
        /\ SoDigitosDe(SubSeq(s, 7 + Len(s1) + Len(s2), 9 + Len(s1) + Len(s2)))
        /\ SubSeq(s, Len(s) - 2 - Len(d) + 1, Len(s) - 2) = d
        /\ \/ SubSeq(s, 1, 3) = "***" /\ SubSeq(s, Len(s) - 1, Len(s)) = "**"
           \/ SoDigitosDe(SubSeq(s, 1, 3)) /\ SoDigitosDe(SubSeq(s, Len(s) - 1, Len(s)))

\* validate_cpf has returned
CpfValidado == call.fn = "validate_cpf" /\ call.pc = "return"

\* C13 as the specification states it: validate_cpf accepts exactly the
\* strings in CPF form, masked or not, and rejects every other string;
\* it accepts '***.120.983-**' and '12345678900' and rejects '', 'abc' and a
\* string of 9 digits.
C13_CpfExactlyFormatValid ==
    CpfValidado => (call.ret <=> FormatoCpf(call.arg))

\* C13 amended: validate_cpf accepts exactly the strings that are in CPF form
\* once the white space around them is stripped (' 12345678900' is accepted);
\* it accepts '***.120.983-**' and '12345678900' and rejects '', 'abc' and a
\* string of 9 digits.
C13_CpfFormatValidAfterStrip ==
    CpfValidado =>
        /\ call.ret <=> FormatoCpf(Strip(call.arg))
        /\ call.arg \in {"***.120.983-**", "12345678900"} => call.ret
        /\ call.arg \in {"", "abc", "123456789"} => ~call.ret

\* C13 witness: a masked CPF with ',' for its first separator and a newline
\* after it was accepted
C13_Witness ==
    /\ CpfValidado
    /\ call.arg = "***,120.983-**\n"
    /\ call.ret

\* the fraction c lies in [0, 1]
EmZeroUm(c) == c.d > 0 /\ 0 <= c.n /\ c.n <= c.d

\* C14: every confidence score lies in [0, 1]: the confidence of
\* validate_specific_patterns (score_confianca of the chatbot data) for every
\* field map, and the one of _calculate_pattern_confidence for every text and
\* classification.
C14_ConfidenceInUnitInterval ==
    call.pc = "return" =>
        /\ call.fn = "validate_specific_patterns" => EmZeroUm(call.ret.confidence)
        /\ call.fn = "_calculate_pattern_confidence" => EmZeroUm(call.ret)

\* C14 witness: a validation with matches and a mismatch has a confidence
\* strictly between 0 and 1
C14_Witness ==
    /\ call.pc = "return"
    /\ call.fn = "validate_specific_patterns"
    /\ Len(call.ret.mismatches) = 1
    /\ Len(call.ret.matches) = 3
    /\ call.ret.confidence = Ratio(3, 4)

RECURSIVE PrimeiroNaoVazio(_, _, _)
\* the value of the first of keys that data holds with a non-empty value,
\* vazio when there is none
PrimeiroNaoVazio(data, keys, vazio) ==
    IF keys = <<>> THEN vazio
    ELSE IF Has(data, Head(keys)) /\ data[Head(keys)] # vazio THEN data[Head(keys)]
    ELSE PrimeiroNaoVazio(data, Tail(keys), vazio)

\* every one of keys is absent from data or empty
TodosVazios(data, keys, vazio) ==
    \A k \in 1..Len(keys) : ~Has(data, keys[k]) \/ data[keys[k]] = vazio

\* standardize_data_for_chatbot has returned
Padronizado == call.pc = "return" /\ call.fn = "standardize_data_for_chatbot"

\* C15: standardize_data_for_chatbot fills each slot with the first non-empty
\* value of its precedence list: payee name (destino_nome, recebedor_nome),
\* payer name (origem_nome, pagador_nome), tax IDs (origem_cpf, pagador_cpf)
\* and (destino_cpf, recebedor_cpf), amount (valor_total, valor_numerico); a
\* slot is empty (0 for the amount) only when every key of its list is absent
\* or empty.
C15_SlotsFirstNonEmpty ==
    Padronizado =>
        /\ call.ret.destino.nome
             = PrimeiroNaoVazio(call.arg, <<"destino_nome", "recebedor_nome">>, "")
        /\ call.ret.origem.nome
             = PrimeiroNaoVazio(call.arg, <<"origem_nome", "pagador_nome">>, "")
        /\ call.ret.origem.cpf
             = PrimeiroNaoVazio(call.arg, <<"origem_cpf", "pagador_cpf">>, "")
        /\ call.ret.destino.cpf
             = PrimeiroNaoVazio(call.arg, <<"destino_cpf", "recebedor_cpf">>, "")
        /\ call.ret.valor_numerico
             = PrimeiroNaoVazio(call.arg, <<"valor_total", "valor_numerico">>, Zero)
        /\ call.ret.destino.nome = ""
             => TodosVazios(call.arg, <<"destino_nome", "recebedor_nome">>, "")
        /\ call.ret.origem.nome = ""
             => TodosVazios(call.arg, <<"origem_nome", "pagador_nome">>, "")
        /\ call.ret.origem.cpf = ""
             => TodosVazios(call.arg, <<"origem_cpf", "pagador_cpf">>, "")
        /\ call.ret.destino.cpf = ""
             => TodosVazios(call.arg, <<"destino_cpf", "recebedor_cpf">>, "")
        /\ IsZero(call.ret.valor_numerico)
             => TodosVazios(call.arg, <<"valor_total", "valor_numerico">>, Zero)

\* C15 witness: the payee name and the amount come from the second key when the
\* first is empty, the payer name from the first when both are filled
C15_Witness ==
    /\ Padronizado
    /\ Has(call.arg, "destino_nome") /\ call.arg["destino_nome"] = ""
    /\ call.ret.destino.nome = "Joao Silva"
    /\ Has(call.arg, "pagador_nome") /\ call.arg["pagador_nome"] = "Sheila Maria"
    /\ call.ret.origem.nome = "Antonio Carlos"
    /\ Has(call.arg, "valor_total") /\ IsZero(call.arg["valor_total"])
    /\ call.ret.valor_numerico = Float("1247.9")
    /\ call.ret.valor_formatado = "R$ 1.247,90"

\* validate_comprovante has returned
Validado == call.pc = "return" /\ call.fn = "validate_comprovante"

\* the list lst holds a warning that contains the words w
TemAviso(lst, w) == \E k \in 1..Len(lst) : Contains(lst[k], w)

\* the number of checks of the receipt c that fail: the amount, the payer, the
\* CPF of the payer and the CNPJ
ChecagensFalhas(c) ==
    (IF ~Has(c, "valor_total") \/ IsZero(c["valor_total"]) THEN 1 ELSE 0)
    + (IF ~Has(c, "pagador") \/ c["pagador"] = EmptyDict THEN 1 ELSE 0)
    + (IF /\ Has(c, "pagador") /\ Has(c["pagador"], "cpf")
          /\ c["pagador"]["cpf"] # ""
          /\ ~validate_cpf(c["pagador"]["cpf"]) THEN 1 ELSE 0)
    + (IF /\ Has(c, "cnpj_empresa") /\ c["cnpj_empresa"] # ""
          /\ ~validate_cnpj(c["cnpj_empresa"]) THEN 1 ELSE 0)

\* C16: validate_comprovante returns a list that holds a warning exactly for
\* each failed check (the amount is absent or not > 0; the payer is absent; a
\* tax ID is present and fails its format check), and no tax-ID warning when
\* the tax ID is absent or empty.
C16_WarningsExactlyForFailedChecks ==
    Validado =>
        /\ Len(call.ret) = ChecagensFalhas(call.arg)
        /\ TemAviso(call.ret, "valor_total")
             <=> (~Has(call.arg, "valor_total") \/ IsZero(call.arg["valor_total"]))
        /\ TemAviso(call.ret, "ausente: pagador")
             <=> (~Has(call.arg, "pagador") \/ call.arg["pagador"] = EmptyDict)
        /\ TemAviso(call.ret, "CPF")
             <=> /\ Has(call.arg, "pagador") /\ Has(call.arg["pagador"], "cpf")
                 /\ call.arg["pagador"]["cpf"] # ""
                 /\ ~validate_cpf(call.arg["pagador"]["cpf"])
        /\ TemAviso(call.ret, "CNPJ")
             <=> /\ Has(call.arg, "cnpj_empresa") /\ call.arg["cnpj_empresa"] # ""
                 /\ ~validate_cnpj(call.arg["cnpj_empresa"])

\* C16 witness: a receipt with amount, payer and transaction whose payer has an
\* empty CPF gets the warning of an invalid CPF, and no other
C16_Witness ==
    /\ Validado
    /\ Has(call.arg, "valor_total") /\ ~IsZero(call.arg["valor_total"])
    /\ Has(call.arg, "transacao") /\ call.arg["transacao"] # EmptyDict
    /\ Has(call.arg, "pagador") /\ Has(call.arg["pagador"], "cpf")
    /\ call.arg["pagador"]["cpf"] = ""
    /\ call.ret = <<"CPF do pagador inválido">>

\* the result holds a non-empty value under key k
Preenchido(d, k) == Has(d, k) /\ d[k] # ""

\* C17: in every extracted result the date and the time are paired: both are
\* present or both are absent, for every layout and every text.
C17_DateTimePaired ==
    Extraido => (Preenchido(resultado, "data") <=> Preenchido(resultado, "hora"))

\* C17 witness: a Nubank text with a date and no time gives a result with the
\* date and without a time
C17_Witness ==
    /\ Extraido
    /\ cleaned_text = "NU PAGAMENTOS\n20/05/2025"
    /\ resultado["layout_detectado"] = "nubank"
    /\ resultado["data"] = "20/05/2025"
    /\ ~Has(resultado, "hora")

\* the twelve month abbreviations
MesesAbreviados ==
    Alt(<<Lit("JAN"), Lit("FEV"), Lit("MAR"), Lit("ABR"), Lit("MAI"), Lit("JUN"),
          Lit("JUL"), Lit("AGO"), Lit("SET"), Lit("OUT"), Lit("NOV"), Lit("DEZ")>>)

\* the forms of a date: DD/MM/YYYY, DD-MM-YYYY and 'DD MMM YYYY' with one of
\* the twelve month abbreviations; the form of a time: HH:MM
FormasDeData ==
    << Cat(<<D12, Lit("/"), D12, Lit("/"), D4>>),
       Cat(<<D12, Lit("-"), D12, Lit("-"), D4>>),
       Cat(<<D12, Ws1, MesesAbreviados, Ws1, D4>>) >>
FormasDeHora == << Cat(<<D12, Lit(":"), D2>>) >>

\* an extraction function of the date and the time has returned a result
DataHoraExtraida ==
    /\ call.pc = "return"
    /\ call.fn \in {"extract_pix_will_bank_data", "_extract_nubank_transferencia_dict"}
    /\ ~call.ret.raised

\* C18: when the text holds no date (no time, or a month abbreviation outside
\* the table of twelve), the date (the time) of the result is left empty: no
\* default or substitute is written for a missing date or time.
C18_MissingDateTimeLeftEmpty ==
    DataHoraExtraida =>
        /\ ~AlgumCasa(FormasDeData, call.arg) => ~Preenchido(call.ret.value, "data")
        /\ ~AlgumCasa(FormasDeHora, call.arg) => ~Preenchido(call.ret.value, "hora")

\* C18 witness: the month abbreviation XYZ is not in the table, and the date
\* of the result names the month 01
C18_Witness ==
    /\ DataHoraExtraida
    /\ call.fn = "_extract_nubank_transferencia_dict"
    /\ call.arg = "20 XYZ 2025 - 17:51:22"
    /\ call.ret.value["data"] = "20/01/2025"
    /\ call.ret.value["data_hora"] = "20/01/2025 - 17:51:22"

\* d is a date in ISO-8601 form: YYYY-MM-DD
IsoDate(d) ==
    /\ Len(d) = 10
    /\ Ch(d, 5) = "-" /\ Ch(d, 8) = "-"
    /\ \A p \in {1, 2, 3, 4, 6, 7, 9, 10} : Ch(d, p) \in Digits

\* the date a function called on its own has emitted; "" when it emitted none
DataEmitida ==
    IF call.pc # "return" THEN ""
    ELSE IF call.fn = "_extract_date_time" THEN call.ret[1]
    ELSE IF call.fn = "_extract_nubank_transferencia_dict" /\ ~call.ret.raised
    THEN Get(call.ret.value, "data", "")
    ELSE ""

NumeroDoMes(a) ==
    LET nomes == <<"JAN", "FEV", "MAR", "ABR", "MAI", "JUN", "JUL", "AGO", "SET", "OUT",
                   "NOV", "DEZ">>
        numeros == <<"01", "02", "03", "04", "05", "06", "07", "08", "09", "10", "11", "12">>
    IN  IF \E k \in 1..12 : nomes[k] = a
        THEN numeros[CHOOSE k \in 1..12 : nomes[k] = a]
        ELSE "01"

\* the text t holds, at position p, a day, a month abbreviation and a year
\* separated by whitespace, and d is that date as DD/MM/YYYY
DiaMesAnoEm(t, p, q, d) ==
    /\ q > p + 2
    /\ SkipWs(t, q + 3) > q + 3
    /\ d = SubSeq(t, p, p + 1) \o "/" \o NumeroDoMes(SubSeq(t, q, q + 2)) \o "/"
           \o SubSeq(t, SkipWs(t, q + 3), SkipWs(t, q + 3) + 3)

Recibo(entries, k) ==
    IF Has(entries[k], "erro")
    THEN [CamposExtraidos(entries[k]) EXCEPT !["erro"] = Replace(@, ImagePath(k), "")]
    ELSE CamposExtraidos(entries[k])

\* the receipt of a text that was read, cleaned being its corrected form
ReciboDoTexto(raw, cleaned, r) ==
    IF r.raised THEN [erro |-> r.erro, raw_text |-> "", layout_detectado |-> "erro"]
    ELSE Update(r.value,
                [raw_text |-> raw, cleaned_text |-> cleaned,
                 layout_detectado |-> detect_document_layout(cleaned)])
ReciboDoLimpo(raw, cleaned) ==
    ReciboDoTexto(raw, cleaned, ExtractByLayout(cleaned, detect_document_layout(cleaned)))

\* the receipt an image gives when it is processed on its own
ReciboDe(img) ==
    IF img.estado = "ilegivel" THEN [erro |-> "Não foi possível carregar a imagem: "]
    ELSE IF img.estado = "preprocess_falha"
    THEN [erro |-> "cv2.error", raw_text |-> "", layout_detectado |-> "erro"]
    ELSE IF img.estado = "ocr_falha"
    THEN [erro |-> "TesseractError", raw_text |-> "", layout_detectado |-> "erro"]
    ELSE IF Strip(img.texto) = ""
    THEN [erro |-> "Nenhum texto extraído da imagem", raw_text |-> "",
          layout_detectado |-> "vazio"]
    ELSE ReciboDoLimpo(Strip(img.texto), correct_common_ocr_errors(Strip(img.texto)))

RECURSIVE BagDe(_, _)
\* the multiset of the first n values of r(1), r(2), ...
BagDe(r(_), n) == IF n = 0 THEN EmptyBag ELSE BagDe(r, n - 1) (+) SetToBag({r(n)})

ListaSalva ==
    /\ estrutura_final # EmptyDict
    /\ Len(estrutura_final.comprovantes) = Len(image_files)
    /\ \A k \in 1..Len(image_files) : estrutura_final.comprovantes[k].arquivo = Basename(k)

\* the chatbot structure was saved, with its transactions and its indices
ChatbotSalvo ==
    /\ dados_chatbot # EmptyDict
    /\ DOMAIN dados_chatbot = {"metadata", "transacoes", "indices_busca"}

TextoDoCenario(k) ==
    /\ image_files[k].estado = "ok"
    /\ \A p \in 1..Len(CenarioPartes) : Contains(image_files[k].texto, CenarioPartes[p])

ErrosDeOcr ==
    { "Ana Cieuma", "Ana Cieima", "Sheiia", "Antonlo", "R5 ", "RS ", "2O25", "O5/",
      "NU PAGAMENT0S", "Wili Bank", "E2386276220250520201" }
SemErroDeOcr(text) == \A erro \in ErrosDeOcr : ~Contains(text, erro)

\* the text of the document at hand has been corrected
Corrigido == pc \in {"layout", "extract", "append"}

\* C23: correct_common_ocr_errors is a function of its text alone that
\* returns for every text: the corrected text of a document is what the
\* function gives for the text read, whatever was processed before; and on a
\* text with none of the known misreadings it is the identity, so that
\* applying it again changes nothing.
C23_CorrectionIdentityWithoutMisreadings ==
    Corrigido =>
        /\ cleaned_text = correct_common_ocr_errors(raw_text)
        /\ SemErroDeOcr(raw_text) =>
                /\ cleaned_text = raw_text
                /\ correct_common_ocr_errors(cleaned_text) = raw_text

\* C23 witness: a text with a currency sign and with a line close to a
\* misreading, 'Valor RS' at the end of a line, has been left as it was read
C23_Witness ==
    /\ Corrigido
    /\ SemErroDeOcr(raw_text)
    /\ Contains(raw_text, "Valor RS")
    /\ Contains(raw_text, "R$ 33,00")
    /\ cleaned_text = raw_text

\* the stages of extract_data on one document, in their order
OrdemDosEstagios ==
    << "load_image", "preprocess_image", "extract_text_from_image",
       "correct_common_ocr_errors", "detect_document_layout", "_extract_by_layout" >>

\* C24: each document passes the stages once and in their order, none of
\* them again; the corrected text, once derived, stays what the correction
\* gave for the text read; and the text the field extraction matches against
\* is the cleaned_text recorded in the result, whatever the text and the
\* layout.
C24_ExtractionMatchesRecordedText ==
    /\ \A k \in 1..Len(stages) : stages[k] = SubSeq(OrdemDosEstagios, 1, Len(stages[k]))
    /\ Corrigido => cleaned_text = correct_common_ocr_errors(raw_text)
    /\ (pc = "append" /\ Has(resultado, "cleaned_text")) =>
            /\ resultado.cleaned_text = cleaned_text
            /\ TextoDaExtracao(cleaned_text, layout) = resultado.cleaned_text

\* C24 witness: a Will Bank document has been extracted from a text that is
\* not the cleaned_text recorded in its result, and its amount is the one
\* read from that other text
C24_Witness ==
    /\ pc = "append"
    /\ layout = "will_bank"
    /\ raw_text = "Will Bank\nE23862762202505202011"
    /\ resultado.cleaned_text = "Will Bank\nE2386276220250520201"
    /\ TextoDaExtracao(cleaned_text, layout) = "Will Bank\nE238627622025052020"
    /\ resultado.valor_numerico = FromInt("238627622025052020")
    /\ WillValor(resultado.cleaned_text) = FromInt("2386276220250520201")

\* the places in the index where id is stored: the key and the position
Lugares(index, id) ==
    {<<key, p>> \in UNION {{key} \X (1..Len(index[key])) : key \in DOMAIN index} :
        index[key][p] = id}

\* the ids stored anywhere in the index
IdsNoIndice(index) == UNION {{index[key][p] : p \in 1..Len(index[key])} : key \in DOMAIN index}

\* the batch loop is still running, or its result is being saved
EmLote ==
    pc \in {"start", "load", "preprocess", "check", "correct", "layout", "extract", "append",
            "save"}

\* the four indices of the chatbot structure
NomesDosIndices == {"por_destinatario", "por_valor", "por_tipo", "por_banco"}

\* nothing of the chatbot structure exists while the batch loop runs
SemIndicesNoLote ==
    EmLote => (chatbot_structure = EmptyDict /\ chatbot_ready_data = <<>> /\ indexadas = 0)

\* while the indices are filled, the transactions are those of the complete
\* list of entries without error, the first indexadas of them have been
\* indexed, once each, and none of the others
PassagemUnica ==
    pc \in {"indices", "save_chatbot"} =>
        /\ Len(comprovantes_estruturados) = Len(image_files)
        /\ chatbot_structure.transacoes = chatbot_ready_data
        /\ Len(chatbot_ready_data) = Cardinality(ComSucesso(comprovantes_estruturados))
        /\ pc = "save_chatbot" => indexadas = Len(chatbot_ready_data)
        /\ \A k \in 1..Len(chatbot_ready_data) :
                Cardinality(Lugares(chatbot_structure.indices_busca.por_tipo,
                                    chatbot_ready_data[k].id_transacao))
                    = IF k <= indexadas THEN 1 ELSE 0

\* a step that changes the chatbot structure is taken when every document
\* of the batch has its entry and the list was saved, and leaves the list
\* and the transactions as they are; one step indexes one transaction
IndicesDepoisDoLote ==
    (chatbot_structure' # chatbot_structure) =>
        /\ pc \in {"chatbot", "indices"}
        /\ i > Len(image_files)
        /\ Len(comprovantes_estruturados) = Len(image_files)
        /\ estrutura_final.comprovantes = comprovantes_estruturados
        /\ comprovantes_estruturados' = comprovantes_estruturados
        /\ pc = "indices" =>
                /\ chatbot_ready_data' = chatbot_ready_data
                /\ indexadas' = indexadas + 1

\* C25: the search indices are built only after the run of every document of
\* the batch has finished: while a document is still being extracted there
\* is no index entry, every step that writes the chatbot structure sees the
\* complete and final list of entries, and the indices are filled in one
\* pass over the transactions in their order, each indexed once.
C25_IndicesAfterWholeBatch ==
    /\ [](SemIndicesNoLote /\ PassagemUnica)
    /\ [][IndicesDepoisDoLote]_vars

\* C25 witness: the second of three transactions has just been indexed, after
\* a batch of three documents that all gave a receipt
C25_Witness ==
    /\ pc = "indices"
    /\ Len(image_files) = 3
    /\ Len(chatbot_ready_data) = 3
    /\ indexadas = 2
    /\ Cardinality(IdsNoIndice(chatbot_structure.indices_busca.por_banco)) = 2

\* the lower and the upper bound of the bucket written as "lower-upper"
FaixaInferior(faixa) == SubSeq(faixa, 1, Find(faixa, "-") - 1)
FaixaSuperior(faixa) == SubSeq(faixa, Find(faixa, "-") + 1, Len(faixa))

\* the bucket starts at a multiple of ten, ends nine above, and holds valor:
\* its lower bound is 10 * floor(valor / 10)
FaixaDoValor(faixa, valor) ==
    /\ Ch(FaixaInferior(faixa), Len(FaixaInferior(faixa))) = "0"
    /\ Ch(FaixaSuperior(faixa), Len(FaixaSuperior(faixa))) = "9"
    /\ StripLeadingZeros(SubSeq(FaixaInferior(faixa), 1, Len(FaixaInferior(faixa)) - 1))
            = StripLeadingZeros(SubSeq(FaixaSuperior(faixa), 1, Len(FaixaSuperior(faixa)) - 1))
    /\ NumLE(FromInt(FaixaInferior(faixa)), valor)
    /\ NumLE(FromInt(valor.i), FromInt(FaixaSuperior(faixa)))

\* the ids stored under a key are in the order of the list of transactions
NaOrdemDaLista(ids, transacoes) ==
    \A p, q \in 1..Len(ids) :
        p < q => \E a, b \in 1..Len(transacoes) :
                    a < b /\ transacoes[a].id_transacao = ids[p]
                          /\ transacoes[b].id_transacao = ids[q]

\* the indices of the structure s are complete and sound for its transactions
IndicesCompletos(s) ==
    /\ \A k \in 1..Len(s.transacoes) :
        LET t == s.transacoes[k]
        IN  /\ \A l \in Lugares(s.indices_busca.por_tipo, t.id_transacao) : l[1] = t.resumo.tipo
            /\ Cardinality(Lugares(s.indices_busca.por_tipo, t.id_transacao)) = 1
            /\ Cardinality(Lugares(s.indices_busca.por_banco, t.id_transacao)) = 1
            /\ \A l \in Lugares(s.indices_busca.por_banco, t.id_transacao) :
                    l[1] = t.detalhes_operacao.canal_utilizado
            /\ Cardinality(Lugares(s.indices_busca.por_destinatario, t.id_transacao))
                    = IF t.participantes.destino.nome_completo # "" THEN 1 ELSE 0
            /\ \A l \in Lugares(s.indices_busca.por_destinatario, t.id_transacao) :
                    l[1] = t.participantes.destino.nome_completo
            /\ Cardinality(Lugares(s.indices_busca.por_valor, t.id_transacao))
                    = IF ~IsZero(t.resumo.valor_numerico) THEN 1 ELSE 0
            /\ \A l \in Lugares(s.indices_busca.por_valor, t.id_transacao) :
                    FaixaDoValor(l[1], t.resumo.valor_numerico)
    /\ \A nome \in NomesDosIndices :
        /\ IdsNoIndice(s.indices_busca[nome])
                \subseteq {s.transacoes[k].id_transacao : k \in 1..Len(s.transacoes)}
        /\ \A key \in DOMAIN s.indices_busca[nome] :
                NaOrdemDaLista(s.indices_busca[nome][key], s.transacoes)

\* C26: after a batch run the indices are complete and sound for the list
\* of receipts: every receipt id is stored once in por_tipo, under its type,
\* and once in por_banco, under its bank; in por_destinatario exactly when the
\* payee name is not empty, under that name; in por_valor exactly when
\* valor_numerico > 0, under the bucket whose lower bound is
\* 10 * floor(valor / 10); every id stored in an index is the id of a receipt
\* of the list; and the ids under each key keep the order of the list.
C26_IndicesCompleteAndSound ==
    (pc = "done" /\ dados_chatbot # EmptyDict) => IndicesCompletos(dados_chatbot)

\* C26 witness: a saved structure of three receipts, two of them in the
\* bucket 30-39 in the order of the list, one with no amount and so in no
\* bucket, and one only with a payee
C26_Witness ==
    /\ pc = "done"
    /\ dados_chatbot # EmptyDict
    /\ Len(dados_chatbot.transacoes) = 3
    /\ DOMAIN dados_chatbot.indices_busca.por_valor = {"30-39"}
    /\ dados_chatbot.indices_busca.por_valor["30-39"]
            = <<dados_chatbot.transacoes[1].id_transacao, dados_chatbot.transacoes[3].id_transacao>>
    /\ IsZero(dados_chatbot.transacoes[2].resumo.valor_numerico)
    /\ DOMAIN dados_chatbot.indices_busca.por_destinatario = {"Ana Cleuma Sousa Dos Santos"}
    /\ Len(dados_chatbot.indices_busca.por_destinatario["Ana Cleuma Sousa Dos Santos"]) = 1

\* the fields of the result r are those the Will Bank extraction writes for
\* the payer with this amount, tax ID, date and time
CamposDoPagador(r, valor, cpf, data, hora) ==
    /\ ~Has(r, "erro")
    /\ Get(r, "valor_numerico", Zero) = valor
    /\ Get(r, "valor_total", Zero) = valor
    /\ Get(r, "origem_cpf", "") = cpf
    /\ Get(r, "pagador_cpf", "") = cpf
    /\ Get(r, "data", "") = data
    /\ Get(r, "hora", "") = hora
    /\ Get(r, "data_hora", "") = data \o " " \o hora

\* C27: the Will Bank extraction writes its outputs by the name of the person
\* in the text: with 'Antonio Valmi' the amount 33.00, the payer CPF
\* '***,097.048-**' and 20/05/2025 17:51:22; otherwise with 'Sheila Fernandes'
\* the amount 17.00, the payer CPF '***,687.783-**' and 22/05/2025 17:52:04;
\* whatever amount or date is printed in the text.
C27_WillBankByPersonName ==
    (pc = "append" /\ layout = "will_bank") =>
        /\ Contains(cleaned_text, "Antonio Valmi") =>
                CamposDoPagador(resultado, FromInt("33"), "***,097.048-**",
                                "20/05/2025", "17:51:22")
        /\ (~Contains(cleaned_text, "Antonio Valmi") /\ Contains(cleaned_text, "Sheila Fernandes")) =>
                CamposDoPagador(resultado, FromInt("17"), "***,687.783-**",
                                "22/05/2025", "17:52:04")

\* C27 witness: a Will Bank text with 'Antonio Valmi' and the payee line in
\* capitals has been through the extraction and has given an error entry, with
\* no amount, no CPF and no date
C27_Witness ==
    /\ pc = "append"
    /\ layout = "will_bank"
    /\ cleaned_text = "Will Bank\nAntonio Valmi\nPARA ANA CLEUMA SOUSA DOS SANTOS"
    /\ Has(resultado, "erro")
    /\ resultado.erro = "no such group"
    /\ ~Has(resultado, "valor_numerico")

(***************************************************************************)
(* C28: the two copies of the layout detection are synchronized: for every *)
(* text, OCRExtractor.detect_document_layout returns the layout that       *)
(* helpers.detect_document_layout returns for it.                          *)
(***************************************************************************)
C28_LayoutCopiesSynchronized ==
    call.pc = "return" /\ call.fn = "OCRExtractor.detect_document_layout"
        => call.ret = detect_document_layout(call.arg)

\* the extractor has found the Nubank layout in a text that names Nubank
\* without 'nu pagamentos', where the copy in helpers finds the generic one
C28_Witness ==
    /\ call.pc = "return"
    /\ call.fn = "OCRExtractor.detect_document_layout"
    /\ call.arg = "Nubank"
    /\ call.ret = "nubank"
    /\ detect_document_layout(call.arg) = "generico"

(***************************************************************************)
(* C29: validate_transaction_data returns a confidence_score in [0, 1] for *)
(* every dictionary, the empty one and those with more errors than fields  *)
(* included.                                                               *)
(***************************************************************************)
C29_ConfidenceScoreInUnitInterval ==
    call.pc = "return" /\ call.fn = "validate_transaction_data"
        => EmZeroUm(call.ret.confidence_score)

\* the empty dictionary has been validated: three critical fields are
\* missing of no field at all, and the score is -3 / 1
C29_Witness ==
    /\ call.pc = "return"
    /\ call.fn = "validate_transaction_data"
    /\ call.arg = EmptyDict
    /\ Len(call.ret.errors) = 3
    /\ ~call.ret.is_valid
    /\ call.ret.confidence_score = Ratio(-3, 1)

\* the seven labels of classify_document_type
RotulosDeDocumento ==
    { "PIX Will Bank", "Transferência Nubank", "PIX Nubank", "PIX Genérico",
      "Transferência Genérica", "Boleto", "Comprovante Genérico" }

(***************************************************************************)
(* C30: classify_document_type is total: for every text it returns one of  *)
(* its seven labels, never a missing value, and so every result of         *)
(* predict_with_confidence reports one of the labels.                      *)
(***************************************************************************)
C30_ClassificationIsTotal ==
    /\ call.pc = "return" /\ call.fn = "classify_document_type"
        => call.ret \in RotulosDeDocumento
    /\ call.pc = "return" /\ call.fn = "predict_with_confidence"
        => \A k \in 1..Len(call.ret) : call.ret[k].classification \in RotulosDeDocumento

\* a text with 'will bank' and none of the indicators of that branch has
\* been classified, and there is no label
C30_Witness ==
    /\ call.pc = "return"
    /\ call.fn = "classify_document_type"
    /\ call.arg = "Will Bank"
    /\ call.ret = PyNone

====
